---------------------------- MODULE Spec2Model ----------------------------
(***************************************************************************)
(* Chain engine of blockchain-data-storage: Blockchain (core/mod.rs),      *)
(* StorageManager (storage/mod.rs), consensus (consensus/mod.rs) and       *)
(* Mempool (mempool.rs).                                                   *)
(*                                                                         *)
(* Byte strings are sequences of numbers.  A SHA-256 digest is modelled as  *)
(* a collision-free byte string: one leading byte drawn from a table by a  *)
(* checksum of the hashed bytes (the byte verify_pow inspects for          *)
(* difficulties below 8), the length of the hashed bytes, and the hashed   *)
(* bytes themselves.  Option<T> is <<>> (None) or <<x>> (Some(x)).         *)
(* A call on the engine is one step: callers hold the engine's lock.       *)
(***************************************************************************)
EXTENDS Integers, Sequences, FiniteSets, TLC

(* ------------------------------ bounds --------------------------------- *)

\* Highest block height the model appends (the chain itself is unbounded).
MaxHeight == 1

(* ---------------------- program constants ------------------------------ *)

MAX_TRANSACTIONS_PER_BLOCK == 100
MEMPOOL_MAX_SIZE == 1000
TARGET_BLOCK_TIME_SECS == 600
ADJUSTMENT_INTERVAL_BLOCKS == 20
MIN_DIFFICULTY == 4
MAX_DIFFICULTY == 60
MAX_DIFFICULTY_CHANGE_FACTOR == 4

(* ------------------------------ options -------------------------------- *)

None == <<>>
Some(x) == <<x>>
is_some(o) == o # <<>>
is_none(o) == o = <<>>
unwrap(o) == o[1]

Min(a, b) == IF a <= b THEN a ELSE b
Max(a, b) == IF a >= b THEN a ELSE b

(* ------------------------------ SHA-256 -------------------------------- *)

\* A checksum of the hashed bytes: their number, the first byte (the leading
\* byte of a previous digest) and the last four (timestamp, nonce, difficulty
\* and height of a header).
ByteAt(s, i) == IF 1 <= i /\ i <= Len(s) THEN s[i] ELSE 0
Checksum(s) ==
    Len(s) + ByteAt(s, 1) + ByteAt(s, Len(s) - 3) + ByteAt(s, Len(s) - 2)
           + ByteAt(s, Len(s) - 1) + ByteAt(s, Len(s))

\* The leading digest byte as a function of the hashed bytes: a fixed table
\* indexed by the checksum, so that consecutive nonces run through the table.
LeadTable == <<58, 15, 129, 7, 28, 0, 240, 19>>
LeadByte(bytes) == LeadTable[(Checksum(bytes) % Len(LeadTable)) + 1]

Sha256(bytes) == <<LeadByte(bytes), Len(bytes)>> \o bytes

\* [0u8; 32]
ZeroHash == <<0, 0>>

(* --------------------- bincode serialization --------------------------- *)

\* Vec<u8>: length prefix, then the bytes.
ser_vec(v) == <<Len(v)>> \o v
\* Option<Vec<u8>>: tag 0, or tag 1 and the vector.
ser_opt_vec(o) == IF o = None THEN <<0>> ELSE <<1>> \o ser_vec(unwrap(o))
\* Option<u64>: tag 0, or tag 1 and the number.
ser_opt_u64(o) == IF o = None THEN <<0>> ELSE <<1, unwrap(o)>>

Drop(s, n) == SubSeq(s, n + 1, Len(s))
Take(s, n) == SubSeq(s, 1, Min(n, Len(s)))

\* Readers return the value read and the bytes left.
read_u64(s) == [val |-> s[1], rest |-> Drop(s, 1)]
read_vec(s) == [val |-> SubSeq(s, 2, s[1] + 1), rest |-> Drop(s, s[1] + 1)]
read_hash(s) == [val |-> SubSeq(s, 1, s[2] + 2), rest |-> Drop(s, s[2] + 2)]
read_opt_vec(s) ==
    IF s[1] = 0 THEN [val |-> None, rest |-> Drop(s, 1)]
    ELSE LET r == read_vec(Drop(s, 1)) IN [val |-> Some(r.val), rest |-> r.rest]
read_opt_u64(s) ==
    IF s[1] = 0 THEN [val |-> None, rest |-> Drop(s, 1)]
    ELSE [val |-> Some(s[2]), rest |-> Drop(s, 2)]

(* --------------------------- Transaction ------------------------------- *)

new_transfer(sender, receiver, amount, now) ==
    [sender |-> sender, receiver |-> receiver, amount |-> amount,
     timestamp |-> now, data_hash |-> None, data_size |-> None]

new_storage(sender, data_hash, data_size, now) ==
    [sender |-> sender, receiver |-> <<>>, amount |-> 0,
     timestamp |-> now, data_hash |-> Some(data_hash), data_size |-> Some(data_size)]

serialize_tx(tx) ==
    ser_vec(tx.sender) \o ser_vec(tx.receiver) \o <<tx.amount, tx.timestamp>>
        \o ser_opt_vec(tx.data_hash) \o ser_opt_u64(tx.data_size)

deserialize_tx(s) ==
    LET a == read_vec(s)
        b == read_vec(a.rest)
        c == read_u64(b.rest)
        d == read_u64(c.rest)
        e == read_opt_vec(d.rest)
        f == read_opt_u64(e.rest)
    IN  [val |-> [sender |-> a.val, receiver |-> b.val, amount |-> c.val,
                  timestamp |-> d.val, data_hash |-> e.val, data_size |-> f.val],
         rest |-> f.rest]

\* Transaction::calculate_hash
tx_calculate_hash(tx) == Sha256(serialize_tx(tx))

(* ---------------------------- BlockHeader ------------------------------ *)

serialize_header(h) ==
    h.previous_hash \o h.merkle_root \o <<h.timestamp, h.nonce, h.difficulty, h.height>>

deserialize_header(s) ==
    LET a == read_hash(s)
        b == read_hash(a.rest)
        c == read_u64(b.rest)
        d == read_u64(c.rest)
        e == read_u64(d.rest)
        f == read_u64(e.rest)
    IN  [val |-> [previous_hash |-> a.val, merkle_root |-> b.val, timestamp |-> c.val,
                  nonce |-> d.val, difficulty |-> e.val, height |-> f.val],
         rest |-> f.rest]

\* BlockHeader::calculate_hash
header_calculate_hash(h) == Sha256(serialize_header(h))

(* ------------------------------- Block --------------------------------- *)

\* hasher.update(tx.calculate_hash()) for every transaction, in order: the
\* hashed bytes are the transaction hashes one after the other (the list is
\* joined by halves).
RECURSIVE ConcatTxHashes(_)
ConcatTxHashes(txs) ==
    IF txs = <<>> THEN <<>>
    ELSE IF Len(txs) = 1 THEN tx_calculate_hash(txs[1])
    ELSE ConcatTxHashes(SubSeq(txs, 1, Len(txs) \div 2))
             \o ConcatTxHashes(SubSeq(txs, Len(txs) \div 2 + 1, Len(txs)))

\* Block::calculate_merkle_root
calculate_merkle_root(txs) ==
    IF txs = <<>> THEN ZeroHash ELSE Sha256(ConcatTxHashes(txs))

\* Block::new; the timestamp is the clock reading `now`.
Block_new(previous_hash, txs, difficulty, height, now) ==
    [header |-> [previous_hash |-> previous_hash,
                 merkle_root |-> calculate_merkle_root(txs),
                 timestamp |-> now, nonce |-> 0,
                 difficulty |-> difficulty, height |-> height],
     transactions |-> txs]

\* Block::hash
block_hash(b) == header_calculate_hash(b.header)

\* The transactions one after the other (the list is joined by halves).
RECURSIVE serialize_txs(_)
serialize_txs(txs) ==
    IF txs = <<>> THEN <<>>
    ELSE IF Len(txs) = 1 THEN serialize_tx(txs[1])
    ELSE serialize_txs(SubSeq(txs, 1, Len(txs) \div 2))
             \o serialize_txs(SubSeq(txs, Len(txs) \div 2 + 1, Len(txs)))

serialize_block(b) ==
    serialize_header(b.header) \o <<Len(b.transactions)>> \o serialize_txs(b.transactions)

\* The first n transactions of the bytes and the bytes left after them.
RECURSIVE read_tx_run(_, _)
read_tx_after(first, n) ==
    [val |-> <<first.val>> \o read_tx_run(first.rest, n - 1).val,
     rest |-> read_tx_run(first.rest, n - 1).rest]
read_tx_run(s, n) ==
    IF n = 0 THEN [val |-> <<>>, rest |-> s] ELSE read_tx_after(deserialize_tx(s), n)

\* The n transactions of a block, read in runs of at most ten.
RECURSIVE read_txs(_, _)
read_txs_after(run, n) == run.val \o read_txs(run.rest, n)
read_txs(s, n) ==
    IF n <= 10 THEN read_tx_run(s, n).val
    ELSE read_txs_after(read_tx_run(s, 10), n - 10)

deserialize_block(s) ==
    LET h == deserialize_header(s)
        n == read_u64(h.rest)
    IN  [header |-> h.val, transactions |-> read_txs(n.rest, n.val)]

(* ----------------------------- consensus ------------------------------- *)

RECURSIVE BitAnd(_, _)
BitAnd(a, b) ==
    IF a = 0 \/ b = 0 THEN 0
    ELSE (a % 2) * (b % 2) + 2 * BitAnd(a \div 2, b \div 2)

Pow2(n) == IF n = 0 THEN 1 ELSE IF n = 1 THEN 2 ELSE IF n = 2 THEN 4
           ELSE IF n = 3 THEN 8 ELSE IF n = 4 THEN 16 ELSE IF n = 5 THEN 32
           ELSE IF n = 6 THEN 64 ELSE IF n = 7 THEN 128 ELSE 256

\* Variant: verify_pow that checks the whole zero bytes only.
verify_pow_whole_bytes(hash, difficulty) ==
    IF difficulty = 0 THEN TRUE
    ELSE \A i \in 1..Min(difficulty \div 8, Len(hash)) : hash[i] = 0

\* verify_pow(hash, difficulty): the first `difficulty` bits of hash are zero.
verify_pow(hash, difficulty) ==
    IF difficulty = 0 THEN TRUE
    ELSE LET required_zero_bytes == difficulty \div 8
             required_zero_bits_in_next_byte == difficulty % 8
         IN  IF ~(\A i \in 1..Min(required_zero_bytes, Len(hash)) : hash[i] = 0)
             THEN FALSE
             ELSE IF required_zero_bits_in_next_byte > 0
                  THEN IF required_zero_bytes < Len(hash)
                       THEN LET next_byte == hash[required_zero_bytes + 1]
                                mask == (255 * Pow2(8 - required_zero_bits_in_next_byte)) % 256
                            IN  BitAnd(next_byte, mask) = 0
                       ELSE FALSE
                  ELSE TRUE

\* u64::MAX. A 64-bit counter is written in the two's complement reading:
\* the values from 2^63 up as their distance below 2^64, so that u64::MAX is
\* -1 and u64::MAX - k is -1 - k.
U64_MAX == -1

\* a <= b as unsigned 64-bit numbers.
u64_le(a, b) == IF (a >= 0) = (b >= 0) THEN a <= b ELSE a >= 0

\* Variant: the nonce wrapping around to 0 after u64::MAX (wrapping_add).
RECURSIVE mine_loop_wrapping(_, _)
mine_loop_wrapping(header, difficulty) ==
    IF verify_pow(header_calculate_hash(header), difficulty)
    THEN [header |-> header, hash |-> Some(header_calculate_hash(header))]
    ELSE mine_loop_wrapping([header EXCEPT !.nonce = IF @ = U64_MAX THEN 0 ELSE @ + 1],
                            difficulty)

\* The loop of mine: the hash of the header is returned when it meets the
\* target, otherwise the nonce is raised by checked_add(1), whose expect()
\* panics at u64::MAX (hash |-> None: the call does not return).
RECURSIVE mine_loop(_, _)
mine_loop(header, difficulty) ==
    IF verify_pow(header_calculate_hash(header), difficulty)
    THEN [header |-> header, hash |-> Some(header_calculate_hash(header))]
    ELSE IF header.nonce = U64_MAX THEN [header |-> header, hash |-> None]
    ELSE mine_loop([header EXCEPT !.nonce = @ + 1], difficulty)

\* mine(header, difficulty): sets the difficulty, then runs the loop from
\* the header's nonce; [header, hash] are the header as the call leaves it
\* and the hash it returns.
mine_call(header, difficulty) ==
    mine_loop([header EXCEPT !.difficulty = difficulty], difficulty)

\* The header after mine(&mut header, difficulty).
mine(header, difficulty) == mine_call(header, difficulty).header

(* --------------------------- StorageManager ---------------------------- *)

\* u64::to_be_bytes / u64::from_be_bytes
to_be_bytes(n) ==
    [i \in 1..8 |-> IF i = 8 THEN n % 256 ELSE IF i = 7 THEN (n \div 256) % 256 ELSE 0]
from_be_bytes(b) == b[7] * 256 + b[8]

\* A stored value has the length of a Hash ([u8; 32]): in this model, a
\* digest byte string with its lead byte, its length byte and its bytes.
IsHashLen(v) == Len(v) >= 2 /\ v[2] = Len(v) - 2
IsHeightLen(v) == Len(v) = 8

EmptyDb == [blocks |-> <<>>, heights |-> <<>>, lh |-> None, ch |-> None]

Put(map, k, v) == (k :> v) @@ map

\* Variant: a WriteBatch that keeps only the newest block under its hash.
WriteBatchPruning(db, block) ==
    LET hash == block_hash(block)
        height_be == to_be_bytes(block.header.height)
    IN  [blocks  |-> Put(<<>>, hash, serialize_block(block)),
         heights |-> Put(db.heights, height_be, hash),
         lh      |-> Some(hash),
         ch      |-> Some(height_be)]

\* The WriteBatch of save_block, applied as one atomic write.
WriteBatch(db, block) ==
    LET hash == block_hash(block)
        height_be == to_be_bytes(block.header.height)
    IN  [blocks  |-> Put(db.blocks, hash, serialize_block(block)),
         heights |-> Put(db.heights, height_be, hash),
         lh      |-> Some(hash),
         ch      |-> Some(height_be)]

\* Variant: the four puts issued one by one, the write failing after the
\* tip hash was put.
PartialWrite(db, block) == [db EXCEPT !.lh = Some(block_hash(block))]

\* Store left by a db.write(batch) that returns an error: nothing of the batch.
FailedWrite(db, block) == db

\* save_block(block); write_ok is the outcome of db.write.
save_block(db, block, write_ok) ==
    IF write_ok THEN [ok |-> TRUE, db |-> WriteBatch(db, block)]
    ELSE [ok |-> FALSE, db |-> FailedWrite(db, block)]

get_block_by_hash(db, hash) ==
    IF hash \in DOMAIN db.blocks THEN Some(deserialize_block(db.blocks[hash])) ELSE None

get_hash_by_height(db, height) ==
    LET height_key == to_be_bytes(height)
    IN  IF height_key \in DOMAIN db.heights
        THEN IF IsHashLen(db.heights[height_key]) THEN Some(db.heights[height_key]) ELSE None
        ELSE None

get_block_by_height(db, height) ==
    LET h == get_hash_by_height(db, height)
    IN  IF is_some(h) THEN get_block_by_hash(db, unwrap(h)) ELSE None

storage_get_last_block_hash(db) ==
    IF is_some(db.lh)
    THEN IF IsHashLen(unwrap(db.lh)) THEN db.lh ELSE None
    ELSE None

storage_get_chain_height(db) ==
    IF is_some(db.ch)
    THEN IF IsHeightLen(unwrap(db.ch)) THEN Some(from_be_bytes(unwrap(db.ch))) ELSE None
    ELSE None

(* ---------------------------- f64 arithmetic --------------------------- *)

\* An f64 greater than zero is kept as [bits, exp]: the 53 bits of its
\* significand, most significant first, and the binary exponent of the first
\* bit.  Results are rounded to nearest, ties to even, as the hardware does.
F64_BITS == 53

Exp2(n) == IF n <= 8 THEN Pow2(n) ELSE 256 * Pow2(n - 8)

\* The w bits of q < 2^w, most significant first.
bits_of(q, w) == [i \in 1 .. w |-> (q \div Exp2(w - i)) % 2]

\* The number of bits of q < 2^16 from its first 1 on.
bit_length(q) == CHOOSE w \in 0 .. 16 : q < Exp2(w) /\ (w = 0 \/ q >= Exp2(w - 1))

\* The next n quotient bits of (r / den), r < den < 2^23, and the remainder
\* left: long division, up to eight bits to the step.
RECURSIVE div_bits(_, _, _, _)
div_bits(r, den, n, acc) ==
    IF n = 0 THEN [bits |-> acc, rem |-> r]
    ELSE div_bits((r * Pow2(Min(n, 8))) % den, den, n - Min(n, 8),
                  acc \o bits_of((r * Pow2(Min(n, 8))) \div den, Min(n, 8)))

\* The significand plus one unit in the last place.
f64_next_up(x) ==
    IF \A i \in DOMAIN x.bits : x.bits[i] = 1
    THEN [bits |-> [i \in DOMAIN x.bits |-> IF i = 1 THEN 1 ELSE 0], exp |-> x.exp + 1]
    ELSE LET j == CHOOSE j \in DOMAIN x.bits :
                      x.bits[j] = 0 /\ \A i \in (j + 1) .. Len(x.bits) : x.bits[i] = 1
         IN  [bits |-> [i \in DOMAIN x.bits |->
                           IF i < j THEN x.bits[i] ELSE IF i = j THEN 1 ELSE 0],
              exp |-> x.exp]

\* num as f64 / den as f64, for 0 < num, den < 2^20 with 1/256 <= num/den < 256.
f64_div(num, den) ==
    LET k == CHOOSE k \in -8 .. 7 :
                 IF k >= 0 THEN den * Exp2(k) <= num /\ num < den * Exp2(k + 1)
                 ELSE den <= num * Exp2(-k) /\ num * Exp2(-k) < 2 * den
        n0 == IF k >= 0 THEN num ELSE num * Exp2(-k)
        d0 == IF k >= 0 THEN den * Exp2(k) ELSE den
        q == div_bits(n0 - d0, d0, F64_BITS - 1, <<1>>)
        down == [bits |-> q.bits, exp |-> k]
    IN  IF 2 * q.rem > d0 \/ (2 * q.rem = d0 /\ q.bits[F64_BITS] = 1)
        THEN f64_next_up(down) ELSE down

\* The number the bits from position lo to hi spell, for at most eight bits.
bits_value(bits, lo, hi) ==
    LET bit(k) == IF lo + k <= hi THEN bits[hi - k] * Pow2(k) ELSE 0
    IN  bit(0) + bit(1) + bit(2) + bit(3) + bit(4) + bit(5) + bit(6) + bit(7)

\* The bits of d * (the number the bits spell), d < 2^16, from the last bit
\* upward, up to eight bits to the step; `carry` is what the bits already
\* multiplied carry over.
RECURSIVE mul_bits(_, _, _, _, _)
mul_bits(bits, i, d, carry, acc) ==
    IF i = 0
    THEN bits_of(carry, bit_length(carry)) \o acc
    ELSE mul_bits(bits, i - Min(i, 8), d,
                  (bits_value(bits, i - Min(i, 8) + 1, i) * d + carry) \div Pow2(Min(i, 8)),
                  bits_of((bits_value(bits, i - Min(i, 8) + 1, i) * d + carry) % Pow2(Min(i, 8)),
                          Min(i, 8)) \o acc)

\* (d as f64) * x, for an integer d > 0.
f64_mul(d, x) ==
    LET p == mul_bits(x.bits, Len(x.bits), d, 0, <<>>)
        extra == Len(p) - F64_BITS
        down == [bits |-> SubSeq(p, 1, F64_BITS), exp |-> x.exp + extra]
        half == extra > 0 /\ p[F64_BITS + 1] = 1
        more == \E i \in (F64_BITS + 2) .. Len(p) : p[i] = 1
    IN  IF half /\ (more \/ p[F64_BITS] = 1) THEN f64_next_up(down) ELSE down

RECURSIVE bits_to_int(_, _, _)
bits_to_int(bits, n, acc) ==
    IF n = 0 THEN acc
    ELSE bits_to_int(Tail(bits), n - 1, 2 * acc + Head(bits))

\* f64::round (half away from zero) as u32.
f64_round(x) ==
    IF x.exp < -1 THEN 0
    ELSE IF x.exp = -1 THEN 1
    ELSE bits_to_int(x.bits, x.exp + 1, 0)
             + (IF x.exp + 2 <= Len(x.bits) THEN x.bits[x.exp + 2] ELSE 0)

(* ---------------------- difficulty adjustment -------------------------- *)

Ok(v) == [ok |-> TRUE, val |-> v]
Err(kind) == [ok |-> FALSE, err |-> kind]

\* f64::round of the quotient num / den of two non-negative integers
\* (half away from zero).
RoundDiv(num, den) == (2 * num + den) \div (2 * den)

\* Variant: the adjusted difficulty left as computed.
unclamped_difficulty(d) == d

clamp_difficulty(d) == Max(MIN_DIFFICULTY, Min(d, MAX_DIFFICULTY))

\* (current_difficulty as f64 * factor).round() as u32 for actual > 0, where
\* factor = (target as f64 / actual as f64).clamp(1/4, 4).  The quotient
\* reaches a limit of the clamp exactly when the ratio of the integers does,
\* and the product with 4 or 1/4 is exact; between the limits the quotient and
\* the product are each rounded to an f64.
scaled_difficulty(current_difficulty, actual_time_secs, target_time_secs) ==
    IF target_time_secs >= MAX_DIFFICULTY_CHANGE_FACTOR * actual_time_secs
    THEN current_difficulty * MAX_DIFFICULTY_CHANGE_FACTOR
    ELSE IF target_time_secs * MAX_DIFFICULTY_CHANGE_FACTOR <= actual_time_secs
    THEN RoundDiv(current_difficulty, MAX_DIFFICULTY_CHANGE_FACTOR)
    ELSE IF current_difficulty = 0 THEN 0
    ELSE f64_round(f64_mul(current_difficulty,
                           f64_div(target_time_secs, actual_time_secs)))

\* The adjustment at the end of an interval that took actual_time_secs.
adjust_difficulty(current_difficulty, actual_time_secs) ==
    IF actual_time_secs = 0 THEN clamp_difficulty(current_difficulty + 1)
    ELSE clamp_difficulty(scaled_difficulty(current_difficulty, actual_time_secs,
                              TARGET_BLOCK_TIME_SECS * ADJUSTMENT_INTERVAL_BLOCKS))

\* timestamp(current) - timestamp(start), saturating at 0.
actual_time(current_timestamp, start_timestamp) ==
    IF current_timestamp >= start_timestamp THEN current_timestamp - start_timestamp ELSE 0

interval_start(current_height) ==
    IF current_height >= ADJUSTMENT_INTERVAL_BLOCKS - 1
    THEN current_height - (ADJUSTMENT_INTERVAL_BLOCKS - 1) ELSE 0

\* Variant: an adjustment after every block, not only at the end of an
\* interval.
next_difficulty_adjusting_always(current_height, current_header, interval_start_height, db) ==
    IF interval_start_height = 0 THEN Ok(current_header.difficulty)
    ELSE LET start == get_block_by_height(db, interval_start_height)
         IN  IF is_none(start) THEN Err("Consensus")
             ELSE Ok(adjust_difficulty(current_header.difficulty,
                        actual_time(current_header.timestamp, unwrap(start).header.timestamp)))

\* Variant: the first interval, which starts at the genesis block, is
\* adjusted like every other one.
next_difficulty_from_genesis(current_height, current_header, interval_start_height, db) ==
    IF (current_height + 1) % ADJUSTMENT_INTERVAL_BLOCKS # 0 THEN Ok(current_header.difficulty)
    ELSE LET start == get_block_by_height(db, interval_start_height)
         IN  IF is_none(start) THEN Err("Consensus")
             ELSE Ok(adjust_difficulty(current_header.difficulty,
                        actual_time(current_header.timestamp, unwrap(start).header.timestamp)))

\* The result once the block at current_height has been read.
next_difficulty_of(current_height, current_header, interval_start_height, db) ==
    IF (current_height + 1) % ADJUSTMENT_INTERVAL_BLOCKS # 0 THEN Ok(current_header.difficulty)
    ELSE IF interval_start_height = 0 THEN Ok(current_header.difficulty)
    ELSE LET start == get_block_by_height(db, interval_start_height)
         IN  IF is_none(start) THEN Err("Consensus")
             ELSE Ok(adjust_difficulty(current_header.difficulty,
                        actual_time(current_header.timestamp, unwrap(start).header.timestamp)))

\* calculate_next_difficulty(current_height, storage): difficulty of the block
\* at current_height + 1.  read_ok is the outcome of the storage reads.
calculate_next_difficulty(current_height, db, read_ok) ==
    IF ~read_ok THEN Err("Consensus")
    ELSE LET cur == get_block_by_height(db, current_height)
         IN  IF is_none(cur) THEN Err("Consensus")
             ELSE next_difficulty_of(current_height, unwrap(cur).header,
                                     interval_start(current_height), db)

(* ------------------------------ Mempool -------------------------------- *)

\* Mempool::new(max_size)
Mempool_new(max_size) == [transactions |-> <<>>, order |-> <<>>, max_size |-> max_size]

mempool_size(mp) == Cardinality(DOMAIN mp.transactions)

Remove(map, k) == [x \in (DOMAIN map) \ {k} |-> map[x]]

\* VecDeque::retain(|h| h != tx_hash)
Retain(order, tx_hash) == LET kept(h) == h # tx_hash IN SelectSeq(order, kept)

\* Variant: add_transaction that inserts without evicting at capacity.
add_transaction_unbounded(mp, tx) ==
    LET tx_hash == tx_calculate_hash(tx)
    IN  IF tx_hash \in DOMAIN mp.transactions THEN [res |-> Ok(FALSE), mp |-> mp]
        ELSE [res |-> Ok(TRUE),
              mp |-> [mp EXCEPT !.transactions = Put(mp.transactions, tx_hash, tx),
                                !.order = Append(mp.order, tx_hash)]]

\* Variant: add_transaction that makes room before it looks for the hash.
add_transaction_capacity_first(mp, tx) ==
    LET tx_hash == tx_calculate_hash(tx)
        full == mempool_size(mp) >= mp.max_size
        room == IF full /\ mp.order # <<>>
                THEN [mp EXCEPT !.transactions = Remove(mp.transactions, Head(mp.order)),
                                !.order = Tail(mp.order)]
                ELSE mp
    IN  IF tx_hash \in DOMAIN mp.transactions THEN [res |-> Ok(FALSE), mp |-> room]
        ELSE IF full /\ mp.order = <<>> THEN [res |-> Err("Mempool"), mp |-> mp]
        ELSE [res |-> Ok(TRUE),
              mp |-> [room EXCEPT !.transactions = Put(room.transactions, tx_hash, tx),
                                  !.order = Append(room.order, tx_hash)]]

\* Variant: add_transaction that evicts the newest entry (pop_back).
add_transaction_evicting_newest(mp, tx) ==
    LET tx_hash == tx_calculate_hash(tx)
        n == Len(mp.order)
    IN  IF tx_hash \in DOMAIN mp.transactions THEN [res |-> Ok(FALSE), mp |-> mp]
        ELSE IF mempool_size(mp) >= mp.max_size
        THEN IF mp.order # <<>>
             THEN LET evicted == Remove(mp.transactions, mp.order[n])
                  IN  [res |-> Ok(TRUE),
                       mp |-> [mp EXCEPT !.transactions = Put(evicted, tx_hash, tx),
                                         !.order = Append(SubSeq(mp.order, 1, n - 1), tx_hash)]]
             ELSE [res |-> Err("Mempool"), mp |-> mp]
        ELSE [res |-> Ok(TRUE),
              mp |-> [mp EXCEPT !.transactions = Put(mp.transactions, tx_hash, tx),
                                !.order = Append(mp.order, tx_hash)]]

\* Variant: add_transaction that evicts from the map and leaves the evicted
\* hash in the queue (front() for pop_front()).
add_transaction_keeping_evicted_hash(mp, tx) ==
    LET tx_hash == tx_calculate_hash(tx)
    IN  IF tx_hash \in DOMAIN mp.transactions THEN [res |-> Ok(FALSE), mp |-> mp]
        ELSE IF mempool_size(mp) >= mp.max_size
        THEN IF mp.order # <<>>
             THEN [res |-> Ok(TRUE),
                   mp |-> [mp EXCEPT !.transactions =
                                         Put(Remove(mp.transactions, Head(mp.order)), tx_hash, tx),
                                     !.order = Append(mp.order, tx_hash)]]
             ELSE [res |-> Err("Mempool"), mp |-> mp]
        ELSE [res |-> Ok(TRUE),
              mp |-> [mp EXCEPT !.transactions = Put(mp.transactions, tx_hash, tx),
                                !.order = Append(mp.order, tx_hash)]]

\* add_transaction(tx): [res, mp]; res is Ok(true), Ok(false) or Err.
add_transaction(mp, tx) ==
    LET tx_hash == tx_calculate_hash(tx)
    IN  IF tx_hash \in DOMAIN mp.transactions THEN [res |-> Ok(FALSE), mp |-> mp]
        ELSE IF mempool_size(mp) >= mp.max_size
        THEN IF mp.order # <<>>
             THEN LET oldest_hash == Head(mp.order)
                      evicted == Remove(mp.transactions, oldest_hash)
                  IN  [res |-> Ok(TRUE),
                       mp |-> [mp EXCEPT !.transactions = Put(evicted, tx_hash, tx),
                                         !.order = Append(Tail(mp.order), tx_hash)]]
             ELSE [res |-> Err("Mempool"), mp |-> mp]
        ELSE [res |-> Ok(TRUE),
              mp |-> [mp EXCEPT !.transactions = Put(mp.transactions, tx_hash, tx),
                                !.order = Append(mp.order, tx_hash)]]

\* get_transactions(max_count): order.iter().take(max_count).filter_map(get)
FilterMapGet(hashes, map) ==
    LET present(h) == h \in DOMAIN map
    IN  [i \in 1 .. Len(SelectSeq(hashes, present)) |-> map[SelectSeq(hashes, present)[i]]]

\* Variant: get_transactions that serves the newest entries first.
get_transactions_newest_first(mp, max_count) ==
    LET n == Len(mp.order)
        newest_first == [i \in 1 .. n |-> mp.order[n + 1 - i]]
    IN  FilterMapGet(Take(newest_first, max_count), mp.transactions)

get_transactions(mp, max_count) == FilterMapGet(Take(mp.order, max_count), mp.transactions)

\* Variant: remove_transactions that leaves the order queue as it is.
RECURSIVE remove_transactions_from_map_only(_, _)
remove_transactions_from_map_only(mp, tx_hashes) ==
    IF tx_hashes = <<>> THEN mp
    ELSE remove_transactions_from_map_only(
             [mp EXCEPT !.transactions = Remove(mp.transactions, tx_hashes[1])],
             Tail(tx_hashes))

\* remove_transactions(tx_hashes): for every listed hash, transactions.remove
\* and, when the hash was there, order.retain(|h| h != hash); hashes that are
\* absent or listed again change nothing.
remove_transactions(mp, tx_hashes) ==
    LET listed == {tx_hashes[i] : i \in DOMAIN tx_hashes} \cap DOMAIN mp.transactions
        kept(h) == h \notin listed
    IN  [mp EXCEPT !.transactions = [h \in (DOMAIN mp.transactions) \ listed |->
                                        mp.transactions[h]],
                   !.order = SelectSeq(mp.order, kept)]

(* ------------------------- inputs of the model ------------------------- *)

\* Readings of SystemTime::now(): when the genesis block is created, when
\* this node mines, and when a peer mined the block it delivers.
GenesisTimes == {0, 1}
MineTimes == {2}
PeerTimes == {3}

\* Transactions clients submit (Transaction::new_transfer).
Tx1 == new_transfer(<<1>>, <<2>>, 100, 0)
Tx2 == new_transfer(<<3>>, <<4>>, 200, 0)
Txs == {Tx1, Tx2}

\* Transaction lists of the blocks a peer delivers.
PeerTxLists == {<<Tx2>>}

\* A hash that is no block's hash ([99u8; 32] in the tests).
ForeignHash == Sha256(<<99>>)

\* Ways a delivered block differs from a correctly mined one.
Defects == {{}, {"height"}, {"prev"}, {"merkle"}, {"pow"}, {"difficulty"},
            {"height", "pow"}, {"difficulty", "pow"}}

RECURSIVE break_pow(_)
break_pow(header) ==
    IF ~verify_pow(header_calculate_hash(header), header.difficulty) THEN header
    ELSE break_pow([header EXCEPT !.nonce = @ + 1])

alter_height(h, defects) ==
    IF "height" \in defects THEN [h EXCEPT !.height = @ + 1] ELSE h
alter_prev(h, defects) ==
    IF "prev" \in defects THEN [h EXCEPT !.previous_hash = ForeignHash] ELSE h
alter_merkle(h, defects) ==
    IF "merkle" \in defects THEN [h EXCEPT !.merkle_root = ForeignHash] ELSE h
stated_difficulty(h, defects) ==
    IF "difficulty" \in defects THEN h.difficulty + 1 ELSE h.difficulty
remine(h, defects) == mine([h EXCEPT !.nonce = 0], stated_difficulty(h, defects))
alter_pow(h, defects) == IF "pow" \in defects THEN break_pow(h) ELSE h

\* The block with the given defects: the header fields are altered, the block
\* is mined again at its stated difficulty (as create_test_block does), and
\* for "pow" the nonce is then moved to one that misses the target.
Tamper(block, defects) ==
    IF defects = {} THEN block
    ELSE [block EXCEPT !.header =
            alter_pow(remine(alter_merkle(alter_prev(alter_height(block.header, defects),
                                                     defects), defects), defects), defects)]

(* ------------------------------ the state ------------------------------ *)

VARIABLES
    db,                 \* the RocksDB store of the data directory
    up,                 \* a Blockchain instance exists (Blockchain::new returned Ok)
    mempool,            \* Blockchain.mempool
    current_tip_hash,   \* Blockchain.current_tip_hash : Option<Hash>
    current_height,     \* Blockchain.current_height : Option<u64>
    candidate,          \* a block returned by mine_new_block, held by its caller
    last                \* the last call on the engine and what it returned

vars == <<db, up, mempool, current_tip_hash, current_height, candidate, last>>

Call(op, res, detail, out) == [op |-> op, res |-> res, detail |-> detail, out |-> out]

\* Variant: Blockchain::new that does not load the persisted tip height.
Blockchain_new_without_height(store) ==
    [ok |-> TRUE, tip |-> storage_get_last_block_hash(store), height |-> None]

\* Variant: Blockchain::new without the comparison of the two tip records.
Blockchain_new_lenient(store) ==
    [ok |-> TRUE, tip |-> storage_get_last_block_hash(store),
     height |-> storage_get_chain_height(store)]

\* Blockchain::new(storage_path) on the store `store`: [ok, tip, height].
Blockchain_new(store) ==
    LET tip == storage_get_last_block_hash(store)
        height == storage_get_chain_height(store)
    IN  IF is_some(tip) # is_some(height)
        THEN [ok |-> FALSE, tip |-> None, height |-> None]
        ELSE [ok |-> TRUE, tip |-> tip, height |-> height]

Init ==
    /\ db = EmptyDb
    /\ up = Blockchain_new(EmptyDb).ok
    /\ mempool = Mempool_new(MEMPOOL_MAX_SIZE)
    /\ current_tip_hash = Blockchain_new(EmptyDb).tip
    /\ current_height = Blockchain_new(EmptyDb).height
    /\ candidate = None
    /\ last = Call("new", "Ok", "", None)

\* The engine is dropped and Blockchain::new opens the same data directory
\* again (also after a crash: a batch is written whole or not at all).
Reopen ==
    LET r == Blockchain_new(db)
    IN  /\ up' = r.ok
        /\ mempool' = Mempool_new(MEMPOOL_MAX_SIZE)
        /\ current_tip_hash' = r.tip
        /\ current_height' = r.height
        /\ last' = Call("new", IF r.ok THEN "Ok" ELSE "Initialization", "", None)
        /\ UNCHANGED <<db, candidate>>

\* The genesis block built by initialize_genesis_if_needed at time `now`.
GenesisBlock(now) ==
    [header |-> [previous_hash |-> ZeroHash,
                 merkle_root |-> calculate_merkle_root(<<>>),
                 timestamp |-> now, nonce |-> 0,
                 difficulty |-> MIN_DIFFICULTY, height |-> 0],
     transactions |-> <<>>]

\* Variant: initialize_genesis_if_needed without the check of the cached
\* height.
InitializeGenesisAlways(io) ==
    /\ up
    /\ \E now \in GenesisTimes, f \in io :
        LET genesis_block == GenesisBlock(now)
            saved == save_block(db, genesis_block, f # "write")
        IN  /\ db' = saved.db
            /\ IF saved.ok
               THEN /\ current_tip_hash' = Some(block_hash(genesis_block))
                    /\ current_height' = Some(0)
                    /\ last' = Call("initialize_genesis_if_needed", "Ok", "created", None)
               ELSE /\ last' = Call("initialize_genesis_if_needed", "Storage", "", None)
                    /\ UNCHANGED <<current_tip_hash, current_height>>
            /\ UNCHANGED <<up, mempool, candidate>>

InitializeGenesisIfNeeded(io) ==
    /\ up
    /\ \E now \in GenesisTimes, f \in io :
        IF is_some(current_height)
        THEN /\ last' = Call("initialize_genesis_if_needed", "Ok", "exists", None)
             /\ UNCHANGED <<db, up, mempool, current_tip_hash, current_height, candidate>>
        ELSE LET genesis_block == GenesisBlock(now)
                 saved == save_block(db, genesis_block, f # "write")
             IN  /\ db' = saved.db
                 /\ IF saved.ok
                    THEN /\ current_tip_hash' = Some(block_hash(genesis_block))
                         /\ current_height' = Some(0)
                         /\ last' = Call("initialize_genesis_if_needed", "Ok", "created", None)
                    ELSE /\ last' = Call("initialize_genesis_if_needed", "Storage", "", None)
                         /\ UNCHANGED <<current_tip_hash, current_height>>
                 /\ UNCHANGED <<up, mempool, candidate>>

AddPendingTransaction ==
    /\ up
    /\ \E tx \in Txs :
        LET r == add_transaction(mempool, tx)
        IN  /\ mempool' = r.mp
            /\ last' = Call("add_pending_transaction",
                            IF r.res.ok THEN "Ok" ELSE "Mempool",
                            IF r.res.ok THEN (IF r.res.val THEN "added" ELSE "present") ELSE "",
                            None)
            /\ UNCHANGED <<db, up, current_tip_hash, current_height, candidate>>

(* ------------------------ Blockchain::add_block ------------------------ *)

Engine(store, tip, height) == [db |-> store, tip |-> tip, height |-> height]

Verdict(res, detail) == [res |-> res, detail |-> detail]
Rejected(eng, res, detail) == [res |-> res, detail |-> detail, eng |-> eng]

\* Variant: add_block without its previous_hash check.
basic_validation_without_prev(block, cur_height, tip_hash) ==
    IF block.header.height # cur_height + 1 THEN "height"
    ELSE IF block.header.merkle_root # calculate_merkle_root(block.transactions) THEN "merkle"
    ELSE ""

\* Variant: add_block that checks neither the height nor the previous_hash.
basic_validation_merkle_only(block, cur_height, tip_hash) ==
    IF block.header.merkle_root # calculate_merkle_root(block.transactions) THEN "merkle"
    ELSE ""

\* The height, previous_hash and merkle_root checks of add_block, in order:
\* "" when the block passes, else the check that failed.
basic_validation(block, cur_height, tip_hash) ==
    IF block.header.height # cur_height + 1 THEN "height"
    ELSE IF block.header.previous_hash # tip_hash THEN "prev"
    ELSE IF block.header.merkle_root # calculate_merkle_root(block.transactions) THEN "merkle"
    ELSE ""

\* Variant: add_block that does not compare the stated difficulty.
difficulty_check_skipped(stated, expected_difficulty) ==
    IF ~expected_difficulty.ok THEN "read" ELSE ""

\* The comparison of the stated difficulty with calculate_next_difficulty's result.
difficulty_check(stated, expected_difficulty) ==
    IF ~expected_difficulty.ok THEN "read"
    ELSE IF stated # expected_difficulty.val THEN "difficulty"
    ELSE ""

\* Variant: the stated difficulty compared before the proof of work is
\* verified.
consensus_validation_difficulty_first(block, cur_height, store, read_ok) ==
    IF difficulty_check(block.header.difficulty,
                        calculate_next_difficulty(cur_height, store, read_ok)) # ""
    THEN difficulty_check(block.header.difficulty,
                          calculate_next_difficulty(cur_height, store, read_ok))
    ELSE IF ~verify_pow(block_hash(block), block.header.difficulty) THEN "pow"
    ELSE ""

\* The proof-of-work and expected-difficulty checks of add_block, in order.
consensus_validation(block, cur_height, store, read_ok) ==
    IF ~verify_pow(block_hash(block), block.header.difficulty) THEN "pow"
    ELSE difficulty_check(block.header.difficulty,
                          calculate_next_difficulty(cur_height, store, read_ok))

\* The first check of add_block that fails, with its error kind.
first_failure(basic, cons) ==
    IF basic # "" THEN Verdict("Validation", basic)
    ELSE IF cons # "" THEN Verdict("Consensus", cons)
    ELSE Verdict("Ok", "")

\* Variant: the cache updated whatever save_block returned.
update_cache_unchecked(eng, block, saved) ==
    [res |-> IF saved.ok THEN "Ok" ELSE "Storage", detail |-> "",
     eng |-> Engine(saved.db, Some(block_hash(block)), Some(block.header.height))]

\* Variant: the cached tip hash updated and the cached height left as it was.
update_cache_keeping_height(eng, block, saved) ==
    IF ~saved.ok THEN Rejected([eng EXCEPT !.db = saved.db], "Storage", "")
    ELSE [res |-> "Ok", detail |-> "",
          eng |-> Engine(saved.db, Some(block_hash(block)), eng.height)]

\* The cache update that follows save_block.
update_cache(eng, block, saved) ==
    IF ~saved.ok THEN Rejected([eng EXCEPT !.db = saved.db], "Storage", "")
    ELSE [res |-> "Ok", detail |-> "",
          eng |-> Engine(saved.db, Some(block_hash(block)), Some(block.header.height))]

\* The engine after a block passed every check: save_block, then the cache.
save_and_update_cache(eng, block, write_ok) ==
    update_cache(eng, block, save_block(eng.db, block, write_ok))

\* What add_block does with the verdict of its checks.
conclude(eng, block, verdict, write_ok) ==
    IF verdict.res # "Ok" THEN Rejected(eng, verdict.res, verdict.detail)
    ELSE save_and_update_cache(eng, block, write_ok)

\* Variant: add_block that stores whatever block it is handed while the
\* engine has no tip.
add_block_without_tip(eng, block, read_ok, write_ok) ==
    IF is_none(eng.height) \/ is_none(eng.tip)
    THEN save_and_update_cache(eng, block, write_ok)
    ELSE conclude(eng, block,
                  first_failure(basic_validation(block, unwrap(eng.height), unwrap(eng.tip)),
                                consensus_validation(block, unwrap(eng.height), eng.db, read_ok)),
                  write_ok)

\* add_block(block) on the engine eng: [res, detail, eng].
add_block(eng, block, read_ok, write_ok) ==
    IF is_none(eng.height) \/ is_none(eng.tip) THEN Rejected(eng, "NotInitialized", "")
    ELSE conclude(eng, block,
                  first_failure(basic_validation(block, unwrap(eng.height), unwrap(eng.tip)),
                                consensus_validation(block, unwrap(eng.height), eng.db, read_ok)),
                  write_ok)

(* --------------------- Blockchain::mine_new_block ---------------------- *)

\* Variant: the block returned without the nonce search.
unmined_block(block, difficulty) ==
    [block EXCEPT !.header = [block.header EXCEPT !.difficulty = difficulty]]

\* Block::new followed by consensus::mine on its header.
mined_block(block, difficulty) ==
    [block EXCEPT !.header = mine(block.header, difficulty)]

\* The block mine_new_block builds once the difficulty is known.
build_block(previous_hash, transactions, difficulty, next_height, now) ==
    IF ~difficulty.ok THEN Err("Consensus")
    ELSE Ok(mined_block(Block_new(previous_hash, transactions, difficulty.val, next_height, now),
                        difficulty.val))

\* mine_new_block() at time `now`: Ok(block) or Err.
mine_new_block(eng, mp, now, read_ok) ==
    IF is_none(eng.height) \/ is_none(eng.tip) THEN Err("NotInitialized")
    ELSE build_block(unwrap(eng.tip),
                     get_transactions(mp, MAX_TRANSACTIONS_PER_BLOCK),
                     calculate_next_difficulty(unwrap(eng.height), eng.db, read_ok),
                     unwrap(eng.height) + 1, now)

(* ------------------- Blockchain::process_mined_block ------------------- *)

tx_hashes_of(txs) == [i \in 1 .. Len(txs) |-> tx_calculate_hash(txs[i])]

\* Variant: the block's transactions removed whatever add_block returned.
mempool_after_any_result(mp, block, r) ==
    remove_transactions(mp, tx_hashes_of(block.transactions))

\* Variant: the block's transactions left in the mempool.
mempool_after_kept(mp, block, r) == mp

\* The mempool after the add_block result r for the block.
mempool_after(mp, block, r) ==
    IF r.res = "Ok" THEN remove_transactions(mp, tx_hashes_of(block.transactions))
    ELSE mp

\* The result of process_mined_block from the result r of its add_block.
processed(r, mp, block) ==
    [res |-> r.res, detail |-> r.detail, eng |-> r.eng, mp |-> mempool_after(mp, block, r)]

\* process_mined_block(block): [res, detail, eng, mp].
process_mined_block(eng, mp, block, read_ok, write_ok) ==
    processed(add_block(eng, block, read_ok, write_ok), mp, block)

(* ------------------------------ actions -------------------------------- *)

TheEngine == Engine(db, current_tip_hash, current_height)

\* Heights up to the tip at which a block can be read.
Heights ==
    {h \in (IF is_some(current_height) THEN 0..unwrap(current_height) ELSE {}) :
        is_some(get_block_by_height(db, h))}

\* A block a peer mined on the stored block at height h.
PeerBlock(h, txs, now) ==
    build_block(block_hash(unwrap(get_block_by_height(db, h))), txs,
                calculate_next_difficulty(h, db, TRUE), h + 1, now).val

\* A block for a chain this engine does not have yet.
OrphanBlock ==
    mined_block(Block_new(block_hash(GenesisBlock(0)), <<>>, MIN_DIFFICULTY, 1, 0),
                MIN_DIFFICULTY)

\* The blocks callers hand to add_block and process_mined_block.
DeliveredBlocks ==
    (IF is_some(candidate) THEN {Tamper(unwrap(candidate), d) : d \in Defects} ELSE {})
    \cup {PeerBlock(h, txs, now) : h \in Heights, txs \in PeerTxLists, now \in PeerTimes}
    \cup (IF is_none(current_height) THEN {OrphanBlock} ELSE {})

\* The store outcomes a call of add_block with this block can meet: a fault of
\* an operation the call never reaches is the call with no fault.
Outcomes(io, block) ==
    {f \in io : \/ f = "ok"
                \/ add_block(TheEngine, block, f # "read", f # "write")
                     # add_block(TheEngine, block, TRUE, TRUE)}

\* The model appends blocks up to MaxHeight.
WithinMaxHeight(height) == IF is_none(height) THEN TRUE ELSE unwrap(height) <= MaxHeight
BelowMaxHeight == IF is_none(current_height) THEN TRUE ELSE unwrap(current_height) < MaxHeight

\* The caller's candidate once the call on `block` returned `res`.
held(block, res) == IF res = "Ok" /\ candidate = Some(block) THEN None ELSE candidate

\* Whether the block handed to the call is the caller's candidate as mined.
given(block) == IF candidate = Some(block) THEN Some("candidate") ELSE None

AddBlockReturns(block, r) ==
    /\ WithinMaxHeight(r.eng.height)
    /\ db' = r.eng.db
    /\ current_tip_hash' = r.eng.tip
    /\ current_height' = r.eng.height
    /\ candidate' = held(block, r.res)
    /\ last' = Call("add_block", r.res, r.detail, given(block))
    /\ UNCHANGED <<up, mempool>>

AddBlock(io) ==
    /\ up
    /\ \E block \in DeliveredBlocks : \E f \in Outcomes(io, block) :
        AddBlockReturns(block, add_block(TheEngine, block, f # "read", f # "write"))

\* Variant: mine_new_block that takes the selected transactions out of the
\* mempool.
MineNewBlockDrains(r) ==
    /\ candidate' = IF r.ok THEN Some(r.val) ELSE candidate
    /\ last' = Call("mine_new_block", IF r.ok THEN "Ok" ELSE r.err, "", None)
    /\ mempool' = IF r.ok
                  THEN remove_transactions(mempool, tx_hashes_of(r.val.transactions))
                  ELSE mempool
    /\ UNCHANGED <<db, up, current_tip_hash, current_height>>

MineNewBlockReturns(r) ==
    /\ candidate' = IF r.ok THEN Some(r.val) ELSE candidate
    /\ last' = Call("mine_new_block", IF r.ok THEN "Ok" ELSE r.err, "", None)
    /\ UNCHANGED <<db, up, mempool, current_tip_hash, current_height>>

MineNewBlock(io) ==
    /\ up
    /\ BelowMaxHeight
    /\ \E now \in MineTimes, f \in io :
        MineNewBlockReturns(mine_new_block(TheEngine, mempool, now, f # "read"))

ProcessMinedBlockReturns(block, r) ==
    /\ WithinMaxHeight(r.eng.height)
    /\ db' = r.eng.db
    /\ current_tip_hash' = r.eng.tip
    /\ current_height' = r.eng.height
    /\ mempool' = r.mp
    /\ candidate' = held(block, r.res)
    /\ last' = Call("process_mined_block", r.res, r.detail, given(block))
    /\ UNCHANGED up

ProcessMinedBlock(io) ==
    /\ up
    /\ \E block \in DeliveredBlocks : \E f \in Outcomes(io, block) :
        ProcessMinedBlockReturns(block,
            process_mined_block(TheEngine, mempool, block, f # "read", f # "write"))

\* A caller takes the engine's lock and reads get_chain_height,
\* get_last_block_hash and get_block_by_height at the height and the next one.
Observe ==
    /\ up
    /\ LET h == IF is_some(current_height) THEN unwrap(current_height) ELSE 0
       IN  last' = Call("observe", "Ok", "",
                        Some([height |-> current_height,
                              tip |-> current_tip_hash,
                              at_height |-> get_block_by_height(db, h),
                              at_next |-> get_block_by_height(db, h + 1)]))
    /\ UNCHANGED <<db, up, mempool, current_tip_hash, current_height, candidate>>

\* What the store does during a call: it works, one of its reads returns an
\* error, or its write returns an error.
Faulty == {"ok", "read", "write"}
Reliable == {"ok"}

Next(io) ==
    \/ Reopen
    \/ InitializeGenesisIfNeeded(io)
    \/ AddPendingTransaction
    \/ AddBlock(io)
    \/ MineNewBlock(io)
    \/ ProcessMinedBlock(io)
    \/ Observe

\* The engine with a store whose reads and writes may fail.
Spec == Init /\ [][Next(Faulty)]_vars

\* The engine with a store that never fails.
SpecReliable == Init /\ [][Next(Reliable)]_vars

(* ----------------------------- properties ------------------------------ *)

\* The stored block at a height, and the heights that have one.
StoredBlock(h) == unwrap(get_block_by_height(db, h))
StoredHeights == {h \in 0..(MaxHeight + 1) : is_some(get_block_by_height(db, h))}

Range(seq) == {seq[i] : i \in DOMAIN seq}

\* The step is a call of add_block or process_mined_block.
AppendCall == last'.op \in {"add_block", "process_mined_block"}

\* C1: when add_block or process_mined_block returns a Validation or a
\* Consensus error, the store, the cached tip hash and height, and the
\* mempool (entries and order) are what they were before the call.
C1_RejectionChangesNothing ==
    [][(AppendCall /\ last'.res \in {"Validation", "Consensus"})
          => UNCHANGED <<db, current_tip_hash, current_height, mempool>>]_vars

\* A process_mined_block was rejected for its proof-of-work while the mempool
\* held transactions.
C1_Witness ==
    /\ last.op = "process_mined_block"
    /\ last.res = "Consensus"
    /\ last.detail = "pow"
    /\ mempool.order # <<>>

\* C2: every stored block at a height h > 0 has as previous_hash the hash of
\* the stored block at height h - 1.
C2_ChainIsLinked ==
    \A h \in StoredHeights \ {0} :
        /\ h - 1 \in StoredHeights
        /\ StoredBlock(h).header.previous_hash = block_hash(StoredBlock(h - 1))

\* A block is stored at height 1, on top of the genesis block.
C2_Witness == 1 \in StoredHeights /\ last.res = "Ok" /\ last.op = "add_block"

\* C3: the cached tip hash and height equal the persisted ones, both are
\* absent or both present, and when present the block at the tip height
\* exists and hashes to the tip hash; also in an engine opened again on the
\* same data directory.
C3_CacheMatchesStore ==
    up => /\ current_tip_hash = storage_get_last_block_hash(db)
          /\ current_height = storage_get_chain_height(db)
          /\ is_some(current_tip_hash) <=> is_some(current_height)
          /\ is_some(current_height) =>
                /\ is_some(get_block_by_height(db, unwrap(current_height)))
                /\ block_hash(StoredBlock(unwrap(current_height))) = unwrap(current_tip_hash)

\* An engine opened again on a store that holds a chain of two blocks.
C3_Witness == last.op = "new" /\ up /\ current_height = Some(1)

\* C4: in every state of the store, also the one a failed save_block leaves,
\* the tip hash and the tip height are both present or both absent, a
\* present tip hash is the hash of a stored block body of the tip height,
\* and the height index at the tip height maps to that hash.
C4_SaveIsAtomic ==
    /\ is_some(db.lh) <=> is_some(db.ch)
    /\ is_some(db.lh) =>
          /\ unwrap(db.lh) \in DOMAIN db.blocks
          /\ block_hash(deserialize_block(db.blocks[unwrap(db.lh)])) = unwrap(db.lh)
          /\ to_be_bytes(deserialize_block(db.blocks[unwrap(db.lh)]).header.height)
                = unwrap(db.ch)
          /\ unwrap(db.ch) \in DOMAIN db.heights
          /\ db.heights[unwrap(db.ch)] = unwrap(db.lh)

\* The save_block of a block on top of a stored chain has just failed.
C4_Witness == last.res = "Storage" /\ last.op = "add_block" /\ is_some(db.lh)

\* What a caller holding the lock may see: no chain at all, or the tip with
\* its block and no block above it.
Consistent(o) ==
    IF is_none(o.height) THEN is_none(o.tip) /\ is_none(o.at_height) /\ is_none(o.at_next)
    ELSE /\ is_some(o.tip)
         /\ is_some(o.at_height)
         /\ block_hash(unwrap(o.at_height)) = unwrap(o.tip)
         /\ unwrap(o.at_height).header.height = unwrap(o.height)
         /\ is_none(o.at_next)

\* C5: every observation made under the engine's lock sees a tip together
\* with its block and no block above it: the tip before an append without
\* the new block, or the tip after it with the new block, never the new block
\* under the old tip nor the new tip without its block.
C5_ObservationsAreConsistent ==
    last.op = "observe" => Consistent(unwrap(last.out))

\* An observation that follows an append: it sees the tip at height 1.
C5_Witness ==
    /\ last.op = "observe"
    /\ unwrap(last.out).height = Some(1)
    /\ is_some(unwrap(last.out).at_height)

\* C6: every stored block, the genesis block included, has a hash that meets
\* the difficulty stated in its header.  initialize_genesis_if_needed stores
\* the genesis block with nonce 0 and never mines it, so this fails.
C6_StoredBlocksMeetTheirTarget ==
    \A h \in StoredHeights :
        verify_pow(block_hash(StoredBlock(h)), StoredBlock(h).header.difficulty)

\* The difficulty calculate_next_difficulty derives for the block above height h.
ExpectedDifficulty(h) == calculate_next_difficulty(h, db, TRUE).val

\* A block that passes the height, previous_hash and merkle_root checks and
\* states a difficulty that is not the expected one, whether or not its hash
\* meets the stated difficulty.
WrongDifficulty(block) ==
    /\ basic_validation(block, unwrap(current_height), unwrap(current_tip_hash)) = ""
    /\ block.header.difficulty # ExpectedDifficulty(unwrap(current_height))

RejectedForConsensus(r) == r.res = "Consensus" /\ r.eng = TheEngine

\* C7: every stored block at a height h >= 1 states the difficulty that
\* calculate_next_difficulty(h - 1) derives from the stored blocks, and
\* add_block answers a block of the right height, previous_hash and
\* merkle_root that states another difficulty with a Consensus error and
\* stores nothing, also when the block's hash meets the stated difficulty.
C7_DifficultyIsTheExpectedOne ==
    /\ \A h \in StoredHeights \ {0} :
          h - 1 \in StoredHeights
              => StoredBlock(h).header.difficulty = ExpectedDifficulty(h - 1)
    /\ (up /\ is_some(current_height) /\ is_some(current_tip_hash)) =>
          \A block \in DeliveredBlocks :
              WrongDifficulty(block)
                  => RejectedForConsensus(add_block(TheEngine, block, TRUE, TRUE))

\* add_block has just refused a block for its stated difficulty, above a
\* stored chain.
C7_Witness ==
    /\ last.op = "add_block"
    /\ last.res = "Consensus"
    /\ last.detail = "difficulty"
    /\ 0 \in StoredHeights

\* The step hands the caller's candidate, as mined, to process_mined_block.
ProcessesCandidate ==
    /\ last'.op = "process_mined_block"
    /\ last'.out = Some("candidate")
    /\ is_some(candidate)
    /\ is_some(current_tip_hash)
    /\ is_some(current_height)

\* C8: with a store that works, process_mined_block accepts the block
\* mine_new_block returned when the tip is still the one it was mined on;
\* the tip height is then the old one plus 1, the tip hash is the hash of the
\* block, and get_block_by_height(old height + 1) returns the block, whose
\* previous_hash is the old tip hash.
C8_MinedBlockIsAccepted ==
    [][(ProcessesCandidate
          /\ unwrap(candidate).header.previous_hash = unwrap(current_tip_hash))
        => /\ last'.res = "Ok"
           /\ current_height' = Some(unwrap(current_height) + 1)
           /\ current_tip_hash' = Some(block_hash(unwrap(candidate)))
           /\ get_block_by_height(db', unwrap(current_height) + 1) = candidate
           /\ unwrap(get_block_by_height(db', unwrap(current_height) + 1)).header.previous_hash
                = unwrap(current_tip_hash)]_vars

\* The candidate, which carried a transaction, has just been processed and
\* is the block at height 1.
C8_Witness ==
    /\ last.op = "process_mined_block"
    /\ last.out = Some("candidate")
    /\ last.res = "Ok"
    /\ current_height = Some(1)
    /\ StoredBlock(1).transactions # <<>>

\* The hashes of the block's transactions.
TxHashesIn(block) == Range(tx_hashes_of(block.transactions))

\* The sequence without its members in the set.
Without(seq, set) == LET keep(x) == x \notin set IN SelectSeq(seq, keep)

\* The mempool `after` is the mempool `before` less the block's transactions.
RemovedFrom(before, after, block) ==
    /\ DOMAIN after.transactions = DOMAIN before.transactions \ TxHashesIn(block)
    /\ \A h \in DOMAIN after.transactions : after.transactions[h] = before.transactions[h]
    /\ after.order = Without(before.order, TxHashesIn(block))
    /\ Range(after.order) \cap TxHashesIn(block) = {}

\* C9: after a process_mined_block(B) that returned Ok, the mempool holds no
\* transaction with the hash of a transaction of B, and holds every other
\* transaction it held, in the same relative order.
C9_MinedTransactionsLeaveTheMempool ==
    [][(last'.op = "process_mined_block" /\ last'.res = "Ok")
        => RemovedFrom(mempool, mempool',
                       unwrap(get_block_by_height(db', unwrap(current_height'))))]_vars

\* A block with a transaction has just been processed and another
\* transaction is still in the mempool.
C9_Witness ==
    /\ last.op = "process_mined_block"
    /\ last.res = "Ok"
    /\ StoredBlock(unwrap(current_height)).transactions # <<>>
    /\ mempool.order # <<>>

\* No two stored blocks are built on the same block.
OnePerTip ==
    \A h1, h2 \in DOMAIN db.blocks :
        h1 # h2 => deserialize_block(db.blocks[h1]).header.previous_hash
                    # deserialize_block(db.blocks[h2]).header.previous_hash

\* The step hands to add_block or process_mined_block the caller's candidate,
\* mined on a tip on which another block has been appended since.
HandsInStaleCandidate ==
    /\ AppendCall
    /\ last'.out = Some("candidate")
    /\ is_some(candidate)
    /\ is_some(current_tip_hash)
    /\ unwrap(candidate).header.previous_hash # unwrap(current_tip_hash)

\* C10: a candidate mined on a tip on which another block was appended is
\* refused with a Validation error, the store, the tip and the mempool
\* staying as they were; and no two stored blocks are built on one tip.
C10_OneCandidatePerTip ==
    /\ [][HandsInStaleCandidate
             => /\ last'.res = "Validation"
                /\ UNCHANGED <<db, current_tip_hash, current_height, mempool>>]_vars
    /\ []OnePerTip

\* The candidate was refused after a peer's block was appended on its tip,
\* while the mempool held its transaction.
C10_Witness ==
    /\ last.op = "process_mined_block"
    /\ last.out = Some("candidate")
    /\ last.res = "Validation"
    /\ is_some(candidate)
    /\ current_height = Some(1)
    /\ unwrap(candidate).header.previous_hash = block_hash(StoredBlock(0))
    /\ unwrap(candidate).transactions # <<>>
    /\ mempool.order # <<>>

(* ----------------------- the mempool on its own ------------------------ *)

\* Largest max_size a mempool is constructed with.
MaxPoolSize == 3

Tx3 == new_transfer(<<5>>, <<6>>, 300, 0)
PoolTxs == {Tx1, Tx2, Tx3}
PoolHashes == {tx_calculate_hash(tx) : tx \in PoolTxs}

\* Hash lists handed to remove_transactions: hashes of no transaction and
\* repeated hashes included.
ListedHashes == PoolHashes \cup {ForeignHash}
HashLists ==
    {<<>>} \cup {<<h>> : h \in ListedHashes} \cup {<<g, h>> : g, h \in ListedHashes}

\* Values of max_count handed to get_transactions.
MaxCounts == 0 .. (MaxPoolSize + 1)

\* A call of the mempool and the history of insertions so far: `first` and
\* `latest` hold the hashes ever inserted, in the order of their first and of
\* their latest successful insertion.
PoolCall(op, res, detail, out, first, latest) ==
    [op |-> op, res |-> res, detail |-> detail, out |-> out,
     first |-> first, latest |-> latest]

InitMempool ==
    /\ db = EmptyDb
    /\ up = TRUE
    /\ \E max_size \in 0 .. MaxPoolSize : mempool = Mempool_new(max_size)
    /\ current_tip_hash = None
    /\ current_height = None
    /\ candidate = None
    /\ last = PoolCall("new", "Ok", "", None, <<>>, <<>>)

OnlyMempool == UNCHANGED <<db, up, current_tip_hash, current_height, candidate>>

added(res) == res.ok /\ res.val

MempoolAddReturns(tx, r) ==
    LET tx_hash == tx_calculate_hash(tx)
    IN  /\ mempool' = r.mp
        /\ last' = PoolCall("add_transaction",
                            IF r.res.ok THEN "Ok" ELSE "Mempool",
                            IF r.res.ok THEN (IF r.res.val THEN "added" ELSE "present") ELSE "",
                            Some(tx),
                            IF added(r.res) /\ tx_hash \notin Range(last.first)
                            THEN Append(last.first, tx_hash) ELSE last.first,
                            IF added(r.res)
                            THEN Append(Retain(last.latest, tx_hash), tx_hash)
                            ELSE last.latest)
        /\ OnlyMempool

\* mempool.add_transaction(tx)
MempoolAdd == \E tx \in PoolTxs : MempoolAddReturns(tx, add_transaction(mempool, tx))

\* mempool.get_transactions(max_count)
MempoolTake ==
    \E max_count \in MaxCounts :
        /\ last' = PoolCall("get_transactions", "Ok", "",
                            Some([max_count |-> max_count,
                                  txs |-> get_transactions(mempool, max_count)]),
                            last.first, last.latest)
        /\ UNCHANGED mempool
        /\ OnlyMempool

\* mempool.remove_transactions(tx_hashes)
MempoolRemove ==
    \E tx_hashes \in HashLists :
        /\ mempool' = remove_transactions(mempool, tx_hashes)
        /\ last' = PoolCall("remove_transactions", "Ok", "",
                            Some([tx_hashes |-> tx_hashes,
                                  removed_count |-> mempool_size(mempool)
                                                      - mempool_size(mempool')]),
                            last.first, last.latest)
        /\ OnlyMempool

NextMempool == MempoolAdd \/ MempoolTake \/ MempoolRemove

SpecMempool == InitMempool /\ [][NextMempool]_vars

(* ------------------------ properties of the mempool --------------------- *)

\* The step is a call of the mempool operation `op`.
PoolStep(op) == last'.op = op

\* The hash of the transaction handed to add_transaction in the step.
AddedHash == tx_calculate_hash(unwrap(last'.out))

SizeWithinMaximum == mempool_size(mempool) <= mempool.max_size

\* C11: after any sequence of add, take and remove the mempool holds at most
\* max_size transactions; with max_size = 0 every add returns an error and
\* inserts nothing.
C11_SizeNeverExceedsMaximum ==
    /\ []SizeWithinMaximum
    /\ [][PoolStep("add_transaction") /\ mempool.max_size = 0
            => last'.res = "Mempool" /\ mempool' = mempool]_vars

\* A mempool at its maximum after an add that had to evict.
C11_Witness ==
    /\ last.op = "add_transaction"
    /\ last.detail = "added"
    /\ mempool.max_size >= 1
    /\ mempool_size(mempool) = mempool.max_size
    /\ Len(last.latest) > mempool.max_size

\* C12: add of a transaction whose hash is already in the mempool returns
\* not-added, not an error, and leaves the size, the entry stored for that
\* hash and the insertion order as they were; nothing is evicted, at capacity
\* included.
C12_DuplicateAddChangesNothing ==
    [][PoolStep("add_transaction") /\ AddedHash \in DOMAIN mempool.transactions
        => /\ last'.res = "Ok"
           /\ last'.detail = "present"
           /\ mempool_size(mempool') = mempool_size(mempool)
           /\ DOMAIN mempool'.transactions = DOMAIN mempool.transactions
           /\ mempool'.transactions[AddedHash] = mempool.transactions[AddedHash]
           /\ mempool'.order = mempool.order]_vars

\* A duplicate was offered to a mempool at its maximum.
C12_Witness ==
    /\ last.op = "add_transaction"
    /\ last.detail = "present"
    /\ mempool.max_size >= 1
    /\ mempool_size(mempool) = mempool.max_size

\* The hashes the mempool holds, oldest insertion first, read off the history
\* of insertions.
HeldInOrder(mp, latest) ==
    LET is_held(h) == h \in DOMAIN mp.transactions IN SelectSeq(latest, is_held)

Taken == unwrap(last'.out)
TakenBefore == unwrap(last.out)

\* The hashes are in the order the history gives them, none twice.
OrderedBy(hashes, history) ==
    LET listed(h) == h \in Range(hashes) IN hashes = SelectSeq(history, listed)

\* get_transactions returned the first min(max_count, size) entries.
TakesFromTheHead ==
    /\ Len(Taken.txs) = Min(Taken.max_count, mempool_size(mempool))
    /\ tx_hashes_of(Taken.txs) = Take(mempool.order, Taken.max_count)
    /\ \A i \in DOMAIN Taken.txs : Taken.txs[i] = mempool.transactions[mempool.order[i]]
    /\ mempool' = mempool

\* Two takes in a row agree on what both return.
SuccessiveTakesAgree ==
    last.op = "get_transactions" /\ PoolStep("get_transactions")
        => LET both == Min(Taken.max_count, TakenBefore.max_count)
           IN  Take(Taken.txs, both) = Take(TakenBefore.txs, both)

\* C14 as stated: get_transactions(k) returns the first min(k, size)
\* transactions, ordered by the time of their first successful insertion, and
\* two takes in a row return the same transactions in the same order.
C14_TakeFollowsFirstInsertion ==
    [][/\ PoolStep("get_transactions")
            => TakesFromTheHead /\ OrderedBy(tx_hashes_of(Taken.txs), last'.first)
       /\ SuccessiveTakesAgree]_vars

\* C14, amended: get_transactions(k) returns the first min(k, size)
\* transactions, ordered by the time of their latest successful insertion (a
\* transaction removed or evicted and added again goes to the tail), and two
\* takes in a row return the same transactions in the same order.
C14_TakeFollowsLatestInsertion ==
    [][/\ PoolStep("get_transactions")
            => /\ TakesFromTheHead
               /\ OrderedBy(tx_hashes_of(Taken.txs), last'.latest)
               /\ tx_hashes_of(Taken.txs) =
                      Take(HeldInOrder(mempool, last'.latest), Taken.max_count)
       /\ SuccessiveTakesAgree]_vars

\* A take returned two transactions of which the one inserted first stands
\* last, having been removed and added again.
C14_Witness ==
    /\ last.op = "get_transactions"
    /\ Len(unwrap(last.out).txs) >= 2
    /\ ~OrderedBy(tx_hashes_of(unwrap(last.out).txs), last.first)
    /\ OrderedBy(tx_hashes_of(unwrap(last.out).txs), last.latest)

\* The hashes handed to remove_transactions in the step.
Listed == Range(unwrap(last'.out).tx_hashes)

\* C15: remove_transactions deletes the listed hashes that are present, and
\* only those, from the hash-to-transaction map and from the insertion order;
\* listed hashes that are absent are passed over without an error, and the
\* transactions that stay keep their entries and their relative order.
C15_RemoveDeletesExactlyTheListed ==
    [][PoolStep("remove_transactions")
        => /\ last'.res = "Ok"
           /\ DOMAIN mempool'.transactions = DOMAIN mempool.transactions \ Listed
           /\ \A h \in DOMAIN mempool'.transactions :
                  mempool'.transactions[h] = mempool.transactions[h]
           /\ mempool'.order = Without(mempool.order, Listed)
           /\ mempool'.max_size = mempool.max_size]_vars

\* A remove was handed a hash the mempool held and a hash it did not hold,
\* and two transactions stayed.
C15_Witness ==
    /\ last.op = "remove_transactions"
    /\ Cardinality(Range(unwrap(last.out).tx_hashes)) = 2
    /\ unwrap(last.out).removed_count = 1
    /\ Len(mempool.order) = 2

(* ------------------------ properties of the engine ---------------------- *)

\* The transactions of the mempool, oldest first.
Fifo(mp) == [i \in DOMAIN mp.order |-> mp.transactions[mp.order[i]]]

\* The block a successful mine_new_block returned in the step.
Mined == unwrap(candidate')

GenesisStored(store) ==
    LET stored == get_block_by_height(store, 0)
    IN  /\ is_some(stored)
        /\ unwrap(stored).header.height = 0
        /\ unwrap(stored).header.previous_hash = ZeroHash
        /\ unwrap(stored).header.difficulty = MIN_DIFFICULTY
        /\ unwrap(stored).header.nonce = 0
        /\ unwrap(stored).transactions = <<>>

\* C17: initialize_genesis_if_needed creates the genesis block exactly once.
\* On an empty chain it stores a block of height 0 with all-zero previous_hash,
\* no transactions, difficulty MIN_DIFFICULTY and nonce 0, and sets the tip
\* height to 0. On a chain that has a tip, in the same process or after the
\* data directory was opened again, it stores nothing and leaves the tip and
\* the block at height 0 as they were.
C17_GenesisIsCreatedOnce ==
    [][/\ last'.op = "initialize_genesis_if_needed" /\ is_none(current_height)
            => /\ last'.res = "Ok"
               /\ get_block_by_height(db, 0) = None
               /\ GenesisStored(db')
               /\ current_height' = Some(0)
               /\ current_tip_hash' = Some(block_hash(StoredBlock(0)'))
       /\ last'.op = "initialize_genesis_if_needed" /\ is_some(current_height)
            => /\ last'.res = "Ok"
               /\ db' = db
               /\ current_height' = current_height
               /\ current_tip_hash' = current_tip_hash
               /\ GenesisStored(db')
       /\ last'.op = "new" /\ is_some(current_height)
            => /\ current_height' = current_height
               /\ current_tip_hash' = current_tip_hash
               /\ db' = db]_vars

\* initialize_genesis_if_needed found the genesis block in an engine opened
\* on the data directory of an earlier one: the mempool is new, while the
\* caller still holds a block mined on the tip from a transaction of the
\* earlier mempool.
C17_Witness ==
    /\ last.op = "initialize_genesis_if_needed"
    /\ last.detail = "exists"
    /\ GenesisStored(db)
    /\ is_some(current_tip_hash)
    /\ is_some(candidate)
    /\ unwrap(candidate).header.previous_hash = unwrap(current_tip_hash)
    /\ unwrap(candidate).transactions # <<>>
    /\ mempool.order = <<>>

\* The engine has no genesis block yet.
NoGenesis == is_none(current_height) /\ is_none(current_tip_hash)

\* The call of the step failed for want of a genesis block and changed
\* nothing.
RefusedUninitialized ==
    /\ last'.res = "NotInitialized"
    /\ mempool' = mempool
    /\ db' = db
    /\ current_tip_hash' = current_tip_hash
    /\ current_height' = current_height

\* C18 as stated: without a genesis block add_pending_transaction,
\* mine_new_block, add_block and process_mined_block all fail with an
\* initialization error and leave the mempool, the store and the tip as they
\* were.
C18_EveryOperationNeedsGenesis ==
    [][NoGenesis /\ last'.op \in {"add_pending_transaction", "mine_new_block",
                                  "add_block", "process_mined_block"}
        => RefusedUninitialized]_vars

\* C18, amended: without a genesis block mine_new_block, add_block and
\* process_mined_block fail with an initialization error and leave the
\* mempool, the store and the tip as they were; add_pending_transaction does
\* not look at the chain and leaves the store and the tip as they were.
C18_ChainOperationsNeedGenesis ==
    [][/\ NoGenesis /\ last'.op \in {"mine_new_block", "add_block", "process_mined_block"}
            => RefusedUninitialized
       /\ NoGenesis /\ last'.op = "add_pending_transaction"
            => /\ last'.res # "NotInitialized"
               /\ db' = db
               /\ current_tip_hash' = current_tip_hash
               /\ current_height' = current_height]_vars

\* process_mined_block was refused on an engine without genesis whose mempool
\* holds a transaction accepted before.
C18_Witness ==
    /\ NoGenesis
    /\ last.op = "process_mined_block"
    /\ last.res = "NotInitialized"
    /\ mempool.order # <<>>
    /\ db = EmptyDb

(* ------------------- opening and reading a given store ------------------ *)

\* The store of a chain that holds its genesis block.
StoredChain == WriteBatch(EmptyDb, GenesisBlock(0))

\* Values of a wrong length: a hash short of its last byte, a height of four
\* bytes.
ShortHash == Take(unwrap(StoredChain.lh), Len(unwrap(StoredChain.lh)) - 1)
ShortHeight == <<0, 0, 0, 0>>

\* The data directories the engine is opened on: each of the tip hash, the
\* tip height and the height-0 entry is absent, as save_block wrote it, or of
\* a wrong length, with and without the block itself.
TipHashValues == {None, StoredChain.lh, Some(ShortHash)}
TipHeightValues == {None, StoredChain.ch, Some(ShortHeight)}
HeightIndexes ==
    {<<>>, StoredChain.heights, Put(<<>>, to_be_bytes(0), ShortHash)}
Stores ==
    {[blocks |-> b, heights |-> hs, lh |-> lh, ch |-> ch] :
        b \in {<<>>, StoredChain.blocks}, hs \in HeightIndexes,
        lh \in TipHashValues, ch \in TipHeightValues}

\* StorageManager::new on one of the data directories; no engine yet.
InitStore ==
    /\ db \in Stores
    /\ up = FALSE
    /\ mempool = Mempool_new(MEMPOOL_MAX_SIZE)
    /\ current_tip_hash = None
    /\ current_height = None
    /\ candidate = None
    /\ last = Call("StorageManager::new", "Ok", "", None)

\* A read of the store: the value returned is recorded, nothing else changes.
Reads(op, value) ==
    /\ last' = Call(op, "Ok", "", value)
    /\ UNCHANGED <<db, up, mempool, current_tip_hash, current_height, candidate>>

GetLastBlockHash == Reads("get_last_block_hash", storage_get_last_block_hash(db))

GetChainHeight == Reads("get_chain_height", storage_get_chain_height(db))

GetHashByHeight ==
    \E height \in 0 .. MaxHeight :
        Reads("get_hash_by_height", [height |-> height, got |-> get_hash_by_height(db, height)])

GetBlockByHeight ==
    \E height \in 0 .. MaxHeight :
        Reads("get_block_by_height", [height |-> height, got |-> get_block_by_height(db, height)])

NextStore ==
    \/ Reopen
    \/ GetLastBlockHash
    \/ GetChainHeight
    \/ GetHashByHeight
    \/ GetBlockByHeight

SpecStore == InitStore /\ [][NextStore]_vars

(* ------------------------ properties of the store ----------------------- *)

\* A tip record is present: a value of the right length is stored under its
\* key.
TipHashPresent == is_some(db.lh) /\ IsHashLen(unwrap(db.lh))
TipHeightPresent == is_some(db.ch) /\ IsHeightLen(unwrap(db.ch))

\* Every tip record stored has the right length.
TipWellFormed ==
    /\ is_some(db.lh) => IsHashLen(unwrap(db.lh))
    /\ is_some(db.ch) => IsHeightLen(unwrap(db.ch))

WrongLengthAt(height) ==
    /\ to_be_bytes(height) \in DOMAIN db.heights
    /\ ~IsHashLen(db.heights[to_be_bytes(height)])

\* C20: a read that finds a value of the wrong length under the tip-hash key,
\* under a height-to-hash key or under the tip-height key returns a storage
\* format error; it never reports the key as absent.
C20_WrongLengthIsAnError ==
    /\ last.op = "get_last_block_hash" /\ is_some(db.lh) /\ ~IsHashLen(unwrap(db.lh))
        => last.res = "Storage"
    /\ last.op = "get_chain_height" /\ is_some(db.ch) /\ ~IsHeightLen(unwrap(db.ch))
        => last.res = "Storage"
    /\ last.op \in {"get_hash_by_height", "get_block_by_height"}
            /\ WrongLengthAt(last.out.height)
        => last.res = "Storage"

(* ------------------- properties of the stored chain --------------------- *)

\* The block stored at height h is read back, by height and by hash, after
\* the step as before it.
StaysStored(h) ==
    /\ get_block_by_height(db', h) = get_block_by_height(db, h)
    /\ get_block_by_hash(db', block_hash(StoredBlock(h))) = Some(StoredBlock(h))

\* C21: once a block is stored at height h, every later state reached by
\* engine operations returns that block, header and transactions, from
\* get_block_by_height(h) and from get_block_by_hash of its hash; no operation
\* replaces or deletes a stored block.
C21_StoredBlocksStay ==
    [][\A h \in 0 .. (MaxHeight + 1) :
           is_some(get_block_by_height(db, h)) => StaysStored(h)]_vars

\* With two blocks stored, a further block was handed in and refused by the
\* basic checks.
C21_Witness ==
    /\ StoredHeights = {0, 1}
    /\ current_height = Some(1)
    /\ last.op \in {"add_block", "process_mined_block"}
    /\ last.res = "Validation"

(* --------------------------- verify_pow alone --------------------------- *)

\* Largest difficulty handed to verify_pow.
MaxBits == 272

\* Hash is [u8; 32].
HASH_BYTES == 32

\* Bit b (0 is the most significant bit of byte 0) of the 32-byte hash whose
\* first `zeros` bits are zero, whose next bit is one and whose other bits are
\* `fill`.
PatternBit(zeros, fill, b) == IF b < zeros THEN 0 ELSE IF b = zeros THEN 1 ELSE fill

PatternByte(zeros, fill, j) ==
    128 * PatternBit(zeros, fill, 8 * j)     + 64 * PatternBit(zeros, fill, 8 * j + 1)
  + 32 * PatternBit(zeros, fill, 8 * j + 2)  + 16 * PatternBit(zeros, fill, 8 * j + 3)
  + 8 * PatternBit(zeros, fill, 8 * j + 4)   + 4 * PatternBit(zeros, fill, 8 * j + 5)
  + 2 * PatternBit(zeros, fill, 8 * j + 6)   + PatternBit(zeros, fill, 8 * j + 7)

PatternHash(zeros, fill) == [i \in 1 .. HASH_BYTES |-> PatternByte(zeros, fill, i - 1)]

\* The hashes handed to verify_pow: every count of leading zero bits from 0 to
\* all 256, followed by ones or by zeros.
PowHashes == {PatternHash(zeros, fill) : zeros \in 0 .. (8 * HASH_BYTES), fill \in {0, 1}}

InitPow ==
    /\ db = EmptyDb
    /\ up = FALSE
    /\ mempool = Mempool_new(MEMPOOL_MAX_SIZE)
    /\ current_tip_hash = None
    /\ current_height = None
    /\ candidate = None
    /\ \E hash \in PowHashes, difficulty \in 0 .. MaxBits :
           last = Call("hash", "", "", [hash |-> hash, difficulty |-> difficulty])

\* verify_pow(hash, difficulty) on the inputs drawn.
VerifyPow ==
    /\ last.op = "hash"
    /\ last' = Call("verify_pow", "Ok", "",
                    [hash |-> last.out.hash, difficulty |-> last.out.difficulty,
                     met |-> verify_pow(last.out.hash, last.out.difficulty)])
    /\ UNCHANGED <<db, up, mempool, current_tip_hash, current_height, candidate>>

SpecPow == InitPow /\ [][VerifyPow]_vars

(* ------------------------ properties of verify_pow ---------------------- *)

\* Bit b of the hash, bit 0 being the most significant bit of byte 0.
BitOf(hash, b) == (hash[(b \div 8) + 1] \div Pow2(7 - (b % 8))) % 2

\* The first d bits of the hash are all zero.
FirstBitsZero(hash, d) == \A b \in 0 .. (d - 1) : BitOf(hash, b) = 0

\* C22: for every 32-byte hash and every difficulty d from 0 to 255,
\* verify_pow(hash, d) is true exactly when the first d bits of the hash, most
\* significant bit of byte 0 first, are all zero; d = 0 accepts every hash.
C22_VerifyPowCountsLeadingZeroBits ==
    last.op = "verify_pow" /\ last.out.difficulty <= 255
        => /\ Len(last.out.hash) = HASH_BYTES
           /\ last.out.met = FirstBitsZero(last.out.hash, last.out.difficulty)
           /\ last.out.difficulty = 0 => last.out.met

\* verify_pow refused, at difficulty 11, a hash whose first 10 bits and no
\* more are zero.
C22_Witness ==
    /\ last.op = "verify_pow"
    /\ last.out.difficulty = 11
    /\ last.out.hash = PatternHash(10, 0)
    /\ ~last.out.met

\* C23: verify_pow(hash, d) is false for every hash of fewer than
\* floor(d / 8) + 1 bytes; for a 32-byte hash it is false for every d >= 256,
\* whatever the bytes of the hash are.
C23_ShortHashFails ==
    last.op = "verify_pow" /\ Len(last.out.hash) < (last.out.difficulty \div 8) + 1
        => ~last.out.met

(* ------------------ calculate_next_difficulty alone -------------------- *)

\* The chains are the ones the unit tests of the consensus module build:
\* blocks 0, 1, ... of one difficulty, saved one after the other, block i
\* stamped `step` seconds after block i - 1; the last block may be stamped
\* `delay` seconds off that pace.
Intervals == 2
FirstTimestamp == 100000

Tips == UNION {{k * ADJUSTMENT_INTERVAL_BLOCKS - 2, k * ADJUSTMENT_INTERVAL_BLOCKS - 1} :
                   k \in 1 .. Intervals}
Difficulties == MIN_DIFFICULTY .. MAX_DIFFICULTY
Steps == {0, 150, TARGET_BLOCK_TIME_SECS, 3000}
Delays == {-1, 0, TARGET_BLOCK_TIME_SECS, 6200}

\* tests::create_test_block_with_details
create_test_block_with_details(height, previous_hash, timestamp, difficulty) ==
    [header |-> [previous_hash |-> previous_hash,
                 merkle_root |-> calculate_merkle_root(
                                     <<new_transfer(<<height % 256>>, <<>>, 0, FirstTimestamp)>>),
                 timestamp |-> timestamp, nonce |-> 0,
                 difficulty |-> difficulty, height |-> height],
     transactions |-> <<new_transfer(<<height % 256>>, <<>>, 0, FirstTimestamp)>>]

\* The locals of a test: the difficulty and the pace of its blocks, the
\* number of blocks saved, the hash of the last one and the delay it had.
TestChain(difficulty, step, blocks, last_hash, delay) ==
    [difficulty |-> difficulty, step |-> step, blocks |-> blocks,
     last_hash |-> last_hash, delay |-> delay]

InitDifficulty ==
    /\ db = EmptyDb
    /\ up = FALSE
    /\ mempool = Mempool_new(MEMPOOL_MAX_SIZE)
    /\ current_tip_hash = None
    /\ current_height = None
    /\ candidate = None
    /\ \E difficulty \in Difficulties, step \in Steps :
           last = Call("chain", "", "", TestChain(difficulty, step, 0, ZeroHash, 0))

SavedTestBlock(chain, block, delay) ==
    Call("save_block", "Ok", "",
         TestChain(chain.difficulty, chain.step, chain.blocks + 1, block_hash(block), delay))

SaveBlock(chain, block, delay) ==
    /\ db' = WriteBatch(db, block)
    /\ last' = SavedTestBlock(chain, block, delay)

\* One turn of the loop of a test: create the next block on last_hash and
\* save it.  A block stamped off the pace is the last one of its chain.
SaveTestBlock ==
    /\ last.op \in {"chain", "save_block"}
    /\ last.out.delay = 0
    /\ last.out.blocks <= Intervals * ADJUSTMENT_INTERVAL_BLOCKS - 1
    /\ \E delay \in Delays :
           /\ delay # 0 => last.out.blocks \in Tips
           /\ SaveBlock(last.out,
                        create_test_block_with_details(
                            last.out.blocks, last.out.last_hash,
                            FirstTimestamp + last.out.blocks * last.out.step + delay,
                            last.out.difficulty),
                        delay)
    /\ UNCHANGED <<up, mempool, current_tip_hash, current_height, candidate>>

DifficultyResult(chain, height, r) ==
    Call("calculate_next_difficulty", IF r.ok THEN "Ok" ELSE r.err, "",
         [chain |-> chain, current_height |-> height, next |-> r])

\* calculate_next_difficulty(current_height, &storage) at the end of a test,
\* for the tip or for the last block of an earlier interval.
CalculateNextDifficulty ==
    /\ last.op = "save_block"
    /\ last.out.blocks - 1 \in Tips
    /\ \E height \in Tips :
           /\ height <= last.out.blocks - 1
           /\ last' = DifficultyResult(last.out, height,
                                       calculate_next_difficulty(height, db, TRUE))
    /\ UNCHANGED <<db, up, mempool, current_tip_hash, current_height, candidate>>

NextDifficulty == SaveTestBlock \/ CalculateNextDifficulty

SpecDifficulty == InitDifficulty /\ [][NextDifficulty]_vars

(* ------------------- properties of the adjustment ---------------------- *)

Calculated == last.op = "calculate_next_difficulty"
AtBoundary == (last.out.current_height + 1) % ADJUSTMENT_INTERVAL_BLOCKS = 0
AskedBlock == unwrap(get_block_by_height(db, last.out.current_height))

\* C24: off an adjustment boundary, calculate_next_difficulty(h) returns the
\* difficulty of the stored block at height h, whatever the timestamps of the
\* stored blocks are.
C24_NoAdjustmentInsideAnInterval ==
    Calculated /\ ~AtBoundary => last.out.next = Ok(AskedBlock.header.difficulty)

\* Reached: the last block before the second boundary, in a chain of 10-bit
\* blocks that came four times too fast, and the answer was 10.
C24_Witness ==
    /\ Calculated
    /\ last.out.current_height = 2 * ADJUSTMENT_INTERVAL_BLOCKS - 2
    /\ last.out.chain.step = 150
    /\ AskedBlock.header.difficulty = 10
    /\ last.out.next = Ok(10)

IntervalStartBlock ==
    unwrap(get_block_by_height(db, interval_start(last.out.current_height)))
ActualTime == actual_time(AskedBlock.header.timestamp, IntervalStartBlock.header.timestamp)
TargetTime == TARGET_BLOCK_TIME_SECS * ADJUSTMENT_INTERVAL_BLOCKS

\* round(d * clamp(target / actual, 1/4, 4)) in exact arithmetic, actual > 0.
RoundedProduct(d, actual, target) ==
    IF target >= MAX_DIFFICULTY_CHANGE_FACTOR * actual THEN d * MAX_DIFFICULTY_CHANGE_FACTOR
    ELSE IF target * MAX_DIFFICULTY_CHANGE_FACTOR <= actual
    THEN RoundDiv(d, MAX_DIFFICULTY_CHANGE_FACTOR)
    ELSE RoundDiv(d * target, actual)

\* The adjusted difficulty as the formula gives it.
Adjusted(d, actual) ==
    IF actual = 0 THEN clamp_difficulty(d + 1)
    ELSE clamp_difficulty(RoundedProduct(d, actual, TargetTime))

\* C25: at a boundary whose interval starts above the genesis block, the
\* result is clamp(d + 1) when no time passed and otherwise
\* clamp(round(d * clamp(12000 / actual, 1/4, 4))), the product rounded as a
\* real number.
C25_AdjustmentFollowsTheFormula ==
    Calculated /\ AtBoundary /\ interval_start(last.out.current_height) > 0
        => last.out.next = Ok(Adjusted(AskedBlock.header.difficulty, ActualTime))

\* The results that differ from the formula are the exact halves.
DiffersOnlyAtHalves ==
    Calculated /\ AtBoundary /\ interval_start(last.out.current_height) > 0
        /\ last.out.next # Ok(Adjusted(AskedBlock.header.difficulty, ActualTime))
        => /\ (2 * AskedBlock.header.difficulty * TargetTime) % ActualTime = 0
           /\ ((2 * AskedBlock.header.difficulty * TargetTime) \div ActualTime) % 2 = 1
           /\ last.out.next = Ok(Adjusted(AskedBlock.header.difficulty, ActualTime) - 1)

\* C26: for a chain of exactly ADJUSTMENT_INTERVAL_BLOCKS blocks of one
\* difficulty d, calculate_next_difficulty for its last block adjusts d to
\* the time between the first and the last block: clamp(d + 1) when it is
\* zero, else clamp(round(d * clamp(target / actual, 1/4, 4))).
C26_FirstIntervalIsAdjusted ==
    /\ Calculated
    /\ last.out.chain.blocks = ADJUSTMENT_INTERVAL_BLOCKS
    /\ last.out.current_height = ADJUSTMENT_INTERVAL_BLOCKS - 1
    => last.out.next = Ok(Adjusted(last.out.chain.difficulty, ActualTime))

\* The blocks of the interval that ends at the asked height came one every
\* TARGET_BLOCK_TIME_SECS.
OnTarget ==
    /\ last.out.chain.step = TARGET_BLOCK_TIME_SECS
    /\ last.out.chain.delay = 0 \/ last.out.current_height < last.out.chain.blocks - 1

\* C27: at every adjustment boundary, blocks that came exactly
\* TARGET_BLOCK_TIME_SECS apart leave the difficulty of the tip unchanged.
C27_OnTargetKeepsTheDifficulty ==
    Calculated /\ AtBoundary /\ OnTarget
        => last.out.next = Ok(AskedBlock.header.difficulty)

(* ------------------------- the object store ---------------------------- *)

\* OffChainStorageManager.  In this specification `db` is the storage
\* directory, a map from file name to file content, `candidate` holds the
\* frame of each caller (the call it is in and where it stands) and `last`
\* the call that returned last: its argument, the value returned, whether it
\* created or wrote a file (wrote), whether its payload had been stored
\* before (again), and the payloads whose store has returned the hash so far
\* (stored) and those whose store has failed so far (failed).
\* A caller takes one file-system step at a time: exists, create, write, read.
ObjectCallers == {"a", "b"}
ObjectPayloads == {<<1, 2>>, <<3>>}
non_existent_hash == Sha256(<<99>>)
ObjectHashes == {Sha256(payload) : payload \in ObjectPayloads} \cup {non_existent_hash}

\* hex::encode
hex_encode(bytes) ==
    [i \in 1 .. (2 * Len(bytes)) |->
        IF i % 2 = 1 THEN bytes[(i + 1) \div 2] \div 16 ELSE bytes[i \div 2] % 16]

\* self.storage_path.join(&hash_hex)
file_path(hash) == hex_encode(hash)

Frame(pc, op, arg, offset, wrote) ==
    [pc |-> pc, op |-> op, arg |-> arg, offset |-> offset, wrote |-> wrote]
Idle == Frame("idle", "", <<>>, 0, FALSE)

InitObjects ==
    /\ db = <<>>
    /\ up = FALSE
    /\ mempool = Mempool_new(MEMPOOL_MAX_SIZE)
    /\ current_tip_hash = None
    /\ current_height = None
    /\ candidate = [c \in ObjectCallers |-> Idle]
    /\ last = Call("OffChainStorageManager::new", "Ok", "",
                   [caller |-> "", arg |-> <<>>, ret |-> <<>>, wrote |-> FALSE,
                    again |-> FALSE, stored |-> {}, failed |-> {}])

\* The engine's variables are not used here.
OnlyObjects == UNCHANGED <<up, mempool, current_tip_hash, current_height>>

\* The frame of caller c is replaced by f.
Enter(c, f) ==
    /\ candidate' = [candidate EXCEPT ![c] = f]
    /\ UNCHANGED last

\* Caller c returns from its call with result res and value ret.
Returned(c, f, res, ret) ==
    Call(f.op, res, "",
         [caller |-> c, arg |-> f.arg, ret |-> ret, wrote |-> f.wrote,
          again |-> f.arg \in last.out.stored,
          stored |-> IF f.op = "store_payload" /\ res = "Ok"
                     THEN last.out.stored \cup {f.arg} ELSE last.out.stored,
          failed |-> IF f.op = "store_payload" /\ res # "Ok"
                     THEN last.out.failed \cup {f.arg} ELSE last.out.failed])

Return(c, res, ret) ==
    /\ candidate' = [candidate EXCEPT ![c] = Idle]
    /\ last' = Returned(c, candidate[c], res, ret)

\* A call begins; when calls are sequential, only while no other call runs.
MayCall(c, interleaved) ==
    /\ candidate[c].pc = "idle"
    /\ interleaved \/ \A o \in ObjectCallers : candidate[o].pc = "idle"

\* store_payload(payload): the hash and the file path are computed.
CallStore(c, interleaved) ==
    /\ MayCall(c, interleaved)
    /\ \E payload \in ObjectPayloads :
           Enter(c, Frame("exists", "store_payload", payload, 0, FALSE))
    /\ UNCHANGED db
    /\ OnlyObjects

\* if file_path.exists() { return Ok(hash_array); }
StoreExists(c) ==
    /\ candidate[c].op = "store_payload" /\ candidate[c].pc = "exists"
    /\ IF file_path(Sha256(candidate[c].arg)) \in DOMAIN db
       THEN Return(c, "Ok", Sha256(candidate[c].arg))
       ELSE Enter(c, [candidate[c] EXCEPT !.pc = "create"])
    /\ UNCHANGED db
    /\ OnlyObjects

\* File::create(&file_path)?: the file is created, or truncated if it exists.
StoreCreate(c, io) ==
    /\ candidate[c].op = "store_payload" /\ candidate[c].pc = "create"
    /\ IF io = "ok"
       THEN /\ db' = Put(db, file_path(Sha256(candidate[c].arg)), <<>>)
            /\ Enter(c, [candidate[c] EXCEPT !.pc = "write", !.wrote = TRUE])
       ELSE /\ Return(c, "Io", <<>>)
            /\ UNCHANGED db
    /\ OnlyObjects

\* The file content after `bytes` were written at `offset`; a gap between the
\* end of the file and the offset reads as zeros.
written_at(content, offset, bytes) ==
    [i \in 1 .. Max(Len(content), offset + Len(bytes)) |->
        IF offset < i /\ i <= offset + Len(bytes) THEN bytes[i - offset]
        ELSE IF i <= Len(content) THEN content[i] ELSE 0]

\* One write of file.write_all(payload)?: n more bytes reach the file, or the
\* write fails.  After the last byte the call returns Ok(hash_array).
wrote_bytes(c, f, path, n) ==
    /\ db' = [db EXCEPT ![path] = written_at(@, f.offset, SubSeq(f.arg, f.offset + 1, f.offset + n))]
    /\ IF f.offset + n = Len(f.arg)
       THEN Return(c, "Ok", Sha256(f.arg))
       ELSE Enter(c, [f EXCEPT !.offset = f.offset + n])

StoreWrite(c, io) ==
    /\ candidate[c].op = "store_payload" /\ candidate[c].pc = "write"
    /\ IF io = "ok"
       THEN \E n \in 1 .. (Len(candidate[c].arg) - candidate[c].offset) :
                wrote_bytes(c, candidate[c], file_path(Sha256(candidate[c].arg)), n)
       ELSE /\ Return(c, "Io", <<>>)
            /\ UNCHANGED db
    /\ OnlyObjects

\* retrieve_payload(payload_hash)
CallRetrieve(c, interleaved) ==
    /\ MayCall(c, interleaved)
    /\ \E payload_hash \in ObjectHashes :
           Enter(c, Frame("exists", "retrieve_payload", payload_hash, 0, FALSE))
    /\ UNCHANGED db
    /\ OnlyObjects

\* if !file_path.exists() { return Err(NotFound(hash_hex)); }
RetrieveExists(c) ==
    /\ candidate[c].op = "retrieve_payload" /\ candidate[c].pc = "exists"
    /\ IF file_path(candidate[c].arg) \in DOMAIN db
       THEN Enter(c, [candidate[c] EXCEPT !.pc = "read"])
       ELSE Return(c, "NotFound", <<>>)
    /\ UNCHANGED db
    /\ OnlyObjects

\* File::open(&file_path)?; file.read_to_end(&mut buffer)?; Ok(buffer): the
\* bytes the file holds when it is read.
RetrieveRead(c, io) ==
    /\ candidate[c].op = "retrieve_payload" /\ candidate[c].pc = "read"
    /\ IF io = "ok"
       THEN Return(c, "Ok", db[file_path(candidate[c].arg)])
       ELSE Return(c, "Io", <<>>)
    /\ UNCHANGED db
    /\ OnlyObjects

ObjectsNext(outcomes, interleaved) ==
    \E c \in ObjectCallers, io \in outcomes :
        \/ CallStore(c, interleaved)
        \/ StoreExists(c)
        \/ StoreCreate(c, io)
        \/ StoreWrite(c, io)
        \/ CallRetrieve(c, interleaved)
        \/ RetrieveExists(c)
        \/ RetrieveRead(c, io)

\* Concurrent callers, no I/O failure.
SpecObjects == InitObjects /\ [][ObjectsNext({"ok"}, TRUE)]_vars

\* One call at a time, each file-system step of which may fail.
SpecObjectsInTurn == InitObjects /\ [][ObjectsNext({"ok", "fail"}, FALSE)]_vars

(* -------------------- properties of the object store ------------------- *)

Whole(bytes, hash) == Sha256(bytes) = hash
RetrievedOneOf(payloads) ==
    /\ last.op = "retrieve_payload"
    /\ \E payload \in payloads : last.out.arg = Sha256(payload)

\* C28: with one call at a time, retrieve(store(X)) returns exactly X, and a
\* second store(X) returns the same hash and writes nothing.
C28_RetrieveReturnsWhatWasStored ==
    /\ RetrievedOneOf(last.out.stored) /\ last.res # "Io"
           => last.res = "Ok" /\ Whole(last.out.ret, last.out.arg)
    /\ last.op = "store_payload" /\ last.res = "Ok" /\ last.out.again
           => last.out.ret = Sha256(last.out.arg) /\ ~last.out.wrote

\* Every file of the directory holds the bytes it is named after.
ObjectsComplete == \A path \in DOMAIN db : file_path(Sha256(db[path])) = path

\* C29: with concurrent callers and no I/O failure, a retrieve returns
\* NotFound or the whole object, a store returns the hash of its bytes, and
\* once all calls have returned every object is complete.
C29_ConcurrentCallersSeeWholeObjects ==
    /\ last.op = "retrieve_payload"
           => last.res = "NotFound" \/ (last.res = "Ok" /\ Whole(last.out.ret, last.out.arg))
    /\ last.op = "store_payload"
           => last.res = "Ok" /\ last.out.ret = Sha256(last.out.arg)
    /\ (\A c \in ObjectCallers : candidate[c].pc = "idle") => ObjectsComplete

\* C30: after a store(X) that failed, with one call at a time, a retrieve of
\* hash(X) never returns bytes other than X, also after a later store(X) has
\* returned the hash.
C30_FailedStoreLeavesNoPartialObject ==
    RetrievedOneOf(last.out.failed) /\ last.res = "Ok"
        => Whole(last.out.ret, last.out.arg)

MissesStatedTarget(block) == ~verify_pow(block_hash(block), block.header.difficulty)

\* The first of the checks, in the order height, previous_hash, merkle_root,
\* proof of work, expected difficulty, that the block fails on this engine.
FirstFailedCheck(block) ==
    IF is_none(current_height) \/ is_none(current_tip_hash) THEN Verdict("NotInitialized", "")
    ELSE IF block.header.height # unwrap(current_height) + 1 THEN Verdict("Validation", "height")
    ELSE IF block.header.previous_hash # unwrap(current_tip_hash) THEN Verdict("Validation", "prev")
    ELSE IF block.header.merkle_root # calculate_merkle_root(block.transactions)
    THEN Verdict("Validation", "merkle")
    ELSE IF MissesStatedTarget(block) THEN Verdict("Consensus", "pow")
    ELSE IF block.header.difficulty # ExpectedDifficulty(unwrap(current_height))
    THEN Verdict("Consensus", "difficulty")
    ELSE Verdict("Ok", "")

ReportsFirstFailedCheck(block, r) ==
    /\ Verdict(r.res, r.detail) = FirstFailedCheck(block)
    /\ r.res # "Ok" => r.eng = TheEngine

\* C33: add_block evaluates its checks in the order initialised, height,
\* previous_hash, merkle_root, proof of work, expected difficulty, and
\* reports the first that fails: a wrong height beside an invalid proof of
\* work is a Validation error, a wrong stated difficulty beside a hash that
\* misses it is the proof-of-work error.
C33_FirstFailedCheckIsReported ==
    up => \A block \in DeliveredBlocks :
              ReportsFirstFailedCheck(block, add_block(TheEngine, block, TRUE, TRUE))

\* add_block has just answered with the proof-of-work error, and the caller
\* holds a block of the right height, previous_hash and merkle_root that
\* states a wrong difficulty and misses it.
C33_Witness ==
    /\ last.op = "add_block"
    /\ last.res = "Consensus"
    /\ last.detail = "pow"
    /\ is_some(current_height) /\ is_some(current_tip_hash)
    /\ \E block \in DeliveredBlocks : WrongDifficulty(block) /\ MissesStatedTarget(block)

\* C36: after any sequence of add, take and remove the queue of the mempool
\* holds exactly the keys of its map, each once, and every transaction of the
\* map is kept under its own hash.
C36_QueueMatchesMap ==
    /\ Range(mempool.order) = DOMAIN mempool.transactions
    /\ Len(mempool.order) = Cardinality(DOMAIN mempool.transactions)
    /\ \A tx_hash \in DOMAIN mempool.transactions :
           tx_calculate_hash(mempool.transactions[tx_hash]) = tx_hash

\* A remove took a transaction out of the mempool and left others in it,
\* after another transaction had been evicted or removed.
C36_Witness ==
    /\ last.op = "remove_transactions"
    /\ unwrap(last.out).removed_count > 0
    /\ mempool.order # <<>>
    /\ \E tx_hash \in Range(last.latest) :
           /\ tx_hash \notin DOMAIN mempool.transactions
           /\ tx_hash \notin Range(unwrap(last.out).tx_hashes)

(* --------------------------- a long chain ------------------------------ *)

\* The engine on a reliable store, from Blockchain::new through genesis and
\* then mining round after mining round up to the end of the last interval
\* modelled; no transactions are submitted.  The clock advances by the same
\* number of seconds from block to block; the paces are those whose adjusted
\* difficulty the digest table has a nonce for.
Paces == {0, TARGET_BLOCK_TIME_SECS, 3000}
LastHeight == Intervals * ADJUSTMENT_INTERVAL_BLOCKS

\* The clock readings the next call of mine_new_block can meet.
ChainTimes ==
    IF unwrap(current_height) = 0
    THEN {StoredBlock(0).header.timestamp + pace : pace \in Paces}
    ELSE {2 * StoredBlock(unwrap(current_height)).header.timestamp
              - StoredBlock(unwrap(current_height) - 1).header.timestamp}

ChainGenesis == InitializeGenesisIfNeeded(Reliable) /\ is_none(current_height)

\* mine_new_block() for the next height.
ChainMine ==
    /\ is_some(current_height)
    /\ is_none(candidate)
    /\ unwrap(current_height) < LastHeight
    /\ \E now \in ChainTimes :
           MineNewBlockReturns(mine_new_block(TheEngine, mempool, now, TRUE))

ChainReturns(op, r) ==
    /\ db' = r.eng.db
    /\ current_tip_hash' = r.eng.tip
    /\ current_height' = r.eng.height
    /\ candidate' = None
    /\ last' = Call(op, r.res, r.detail, Some("candidate"))
    /\ UNCHANGED up

\* process_mined_block(block) with the block mine_new_block returned.
ChainProcess ==
    /\ is_some(candidate)
    /\ mempool' = process_mined_block(TheEngine, mempool, unwrap(candidate), TRUE, TRUE).mp
    /\ ChainReturns("process_mined_block",
                    process_mined_block(TheEngine, mempool, unwrap(candidate), TRUE, TRUE))

\* add_block(block) with the block mine_new_block returned.
ChainAdd ==
    /\ is_some(candidate)
    /\ UNCHANGED mempool
    /\ ChainReturns("add_block", add_block(TheEngine, unwrap(candidate), TRUE, TRUE))

NextChain == ChainGenesis \/ ChainMine \/ ChainProcess \/ ChainAdd

SpecChain == Init /\ [][NextChain]_vars

HeightStep ==
    \/ current_height' = current_height
    \/ /\ is_none(current_height)
       /\ current_height' = Some(0)
       /\ last'.op = "initialize_genesis_if_needed"
    \/ /\ is_some(current_height)
       /\ current_height' = Some(unwrap(current_height) + 1)
       /\ last'.op \in {"add_block", "process_mined_block"}
       /\ last'.res = "Ok"

\* The heights with a stored block are 0 .. tip height, and each block
\* carries the height it is indexed under.
HeightsFilled ==
    \A h \in 0 .. (MaxHeight + 1) :
        /\ is_some(get_block_by_height(db, h))
               <=> (is_some(current_height) /\ h <= unwrap(current_height))
        /\ is_some(get_block_by_height(db, h)) => StoredBlock(h).header.height = h

\* C40: the tip height never decreases; it changes only when the genesis
\* block is created (absent to 0) or add_block succeeds (by one); the stored
\* heights are exactly 0 .. tip height and every stored block carries the
\* height of its index entry.
C40_HeightGrowsByOne == []HeightsFilled /\ [][HeightStep]_vars

\* The engine was opened again on a store of two blocks and read the height 1
\* back from it.
C40_Witness ==
    /\ last.op = "new"
    /\ current_height = Some(1)
    /\ StoredBlock(1).header.height = 1
    /\ StoredBlock(0).header.height = 0

(* -------------------- transactions on their way into blocks ------------ *)

\* Blocks appended after the genesis block, and candidates held by miners at
\* one time.
Rounds == 2
MaxCandidates == 2

\* A call on the node and the hashes of the transactions submitted so far.
NodeCall(op, res, submitted) == [op |-> op, res |-> res, submitted |-> submitted]

\* The node after Blockchain::new on an empty directory and
\* initialize_genesis_if_needed; no miner holds a candidate.
InitNode ==
    /\ db = save_block(EmptyDb, GenesisBlock(0), TRUE).db
    /\ up = TRUE
    /\ mempool = Mempool_new(MEMPOOL_MAX_SIZE)
    /\ current_tip_hash = Some(block_hash(GenesisBlock(0)))
    /\ current_height = Some(0)
    /\ candidate = {}
    /\ last = NodeCall("initialize_genesis_if_needed", "Ok", {})

\* A client submits one of the transactions, which it has not submitted before.
Submit(txs) ==
    \E tx \in txs :
        /\ tx_calculate_hash(tx) \notin last.submitted
        /\ mempool' = add_transaction(mempool, tx).mp
        /\ last' = NodeCall("add_pending_transaction",
                            IF add_transaction(mempool, tx).res.ok THEN "Ok" ELSE "Mempool",
                            last.submitted \cup {tx_calculate_hash(tx)})
        /\ UNCHANGED <<db, up, current_tip_hash, current_height, candidate>>

SubmitOnce == Submit(PoolTxs)

\* A miner calls mine_new_block and keeps the block.
MineCandidate ==
    /\ Cardinality(candidate) < MaxCandidates
    /\ unwrap(current_height) < Rounds
    /\ \E now \in MineTimes, f \in Faulty :
        LET r == mine_new_block(TheEngine, mempool, now, f # "read")
        IN  /\ candidate' = IF r.ok THEN candidate \cup {r.val} ELSE candidate
            /\ last' = NodeCall("mine_new_block", IF r.ok THEN "Ok" ELSE r.err,
                                last.submitted)
    /\ UNCHANGED <<db, up, mempool, current_tip_hash, current_height>>

NodeProcessReturns(block, r) ==
    /\ db' = r.eng.db
    /\ current_tip_hash' = r.eng.tip
    /\ current_height' = r.eng.height
    /\ mempool' = r.mp
    /\ candidate' = candidate \ {block}
    /\ last' = NodeCall("process_mined_block", r.res, last.submitted)
    /\ UNCHANGED up

\* A miner hands its block to process_mined_block.
ProcessCandidate ==
    \E block \in candidate, f \in Faulty :
        NodeProcessReturns(block,
            process_mined_block(TheEngine, mempool, block, f # "read", f # "write"))

NextNode == SubmitOnce \/ MineCandidate \/ ProcessCandidate

\* A node whose blocks all come from its own miners and whose clients submit
\* every transaction once.
SpecNode == InitNode /\ [][NextNode]_vars

\* The blocks of the stored chain.
NodeBlocks == {StoredBlock(h) : h \in {h \in 0 .. Rounds : is_some(get_block_by_height(db, h))}}

\* No two transactions of the block have one hash.
NoRepeatIn(block) ==
    \A i, j \in DOMAIN block.transactions :
        i # j => tx_calculate_hash(block.transactions[i])
                     # tx_calculate_hash(block.transactions[j])

\* C38: with every transaction submitted at most once and blocks appended
\* only by mine_new_block followed by process_mined_block, whatever the
\* interleaving with submissions and other miners' candidates, no transaction
\* hash occurs in two stored blocks or twice in one block.
C38_NoTransactionIsIncludedTwice ==
    /\ \A block \in NodeBlocks : NoRepeatIn(block)
    /\ \A b1, b2 \in NodeBlocks : b1 # b2 => TxHashesIn(b1) \cap TxHashesIn(b2) = {}

\* Two blocks with transactions are stored, and a candidate that another
\* miner had built on the first tip with a transaction of block 1 has just
\* been refused.
C38_Witness ==
    /\ current_height = Some(2)
    /\ StoredBlock(1).transactions # <<>>
    /\ StoredBlock(2).transactions # <<>>
    /\ last.op = "process_mined_block"
    /\ last.res = "Validation"
    /\ Cardinality(last.submitted) = 3

(* --------------------------- the mining round -------------------------- *)

\* Transactions submitted before the first round, oldest first.
Backlog == [i \in 1 .. MAX_TRANSACTIONS_PER_BLOCK |-> new_transfer(<<i>>, <<>>, i, 1)]
Backlogs == {0, MAX_TRANSACTIONS_PER_BLOCK - 1, MAX_TRANSACTIONS_PER_BLOCK}

\* The mempool after add_pending_transaction of the first n backlog
\* transactions.
pool_of(n) ==
    [transactions |-> [tx_hash \in {tx_calculate_hash(Backlog[i]) : i \in 1 .. n} |->
                          deserialize_tx(Drop(tx_hash, 2)).val],
     order |-> [i \in 1 .. n |-> tx_calculate_hash(Backlog[i])],
     max_size |-> MEMPOOL_MAX_SIZE]

\* The node after genesis, with a backlog of submitted transactions.
InitRounds ==
    /\ db = save_block(EmptyDb, GenesisBlock(0), TRUE).db
    /\ up = TRUE
    /\ \E n \in Backlogs :
        /\ mempool = pool_of(n)
        /\ last = NodeCall("add_pending_transaction", "Ok",
                           {tx_calculate_hash(Backlog[i]) : i \in 1 .. n})
    /\ current_tip_hash = Some(block_hash(GenesisBlock(0)))
    /\ current_height = Some(0)
    /\ candidate = {}

\* The miner calls mine_new_block. Rounds on an empty mempool are counted up
\* to the bound.
RoundMine ==
    /\ candidate = {}
    /\ mempool.order # <<>> \/ unwrap(current_height) < Rounds
    /\ \E now \in MineTimes :
        candidate' = {mine_new_block(TheEngine, mempool, now, TRUE).val}
    /\ last' = NodeCall("mine_new_block", "Ok", last.submitted)
    /\ UNCHANGED <<db, up, mempool, current_tip_hash, current_height>>

\* The miner hands the block it mined to process_mined_block.
RoundProcess ==
    \E block \in candidate :
        NodeProcessReturns(block, process_mined_block(TheEngine, mempool, block, TRUE, TRUE))

SubmitLate == Submit(Txs)

NextRounds == SubmitLate \/ RoundMine \/ RoundProcess

\* The steps of the miner, told by the call they record: RoundMine is the
\* only step from a state without a candidate to a call of mine_new_block,
\* RoundProcess the only one from a state with a candidate to a call of
\* process_mined_block.
MinerMines ==
    /\ candidate = {}
    /\ mempool.order # <<>> \/ unwrap(current_height) < Rounds
    /\ last' = NodeCall("mine_new_block", "Ok", last.submitted)
MinerProcesses ==
    /\ candidate # {}
    /\ \E res \in {"Ok", "Validation", "Consensus", "Storage"} :
           last' = NodeCall("process_mined_block", res, last.submitted)

\* The node whose miner keeps running rounds: mine_new_block, then
\* process_mined_block.
SpecRounds ==
    InitRounds /\ [][NextRounds]_vars /\ WF_last(MinerMines) /\ WF_last(MinerProcesses)

\* Every transaction a client of the model submits.
NodeTxs == Txs \cup {Backlog[i] : i \in DOMAIN Backlog}

\* The transaction is in the mempool.
Pending(tx) == tx_calculate_hash(tx) \in DOMAIN mempool.transactions

\* The hashes of the transactions the step takes out of the mempool.
Leaving == (DOMAIN mempool.transactions) \ (DOMAIN mempool'.transactions)

\* The block the step stored at the new tip height.
NewBlock == unwrap(get_block_by_height(db', unwrap(current_height')))

\* Transactions leave the mempool only into the block the step stores.
LeavesIntoABlock ==
    Leaving # {}
        => /\ last'.op = "process_mined_block"
           /\ last'.res = "Ok"
           /\ current_height' = Some(unwrap(current_height) + 1)
           /\ Leaving \subseteq TxHashesIn(NewBlock)

\* mine_new_block puts the transactions at the first
\* MAX_TRANSACTIONS_PER_BLOCK positions of the insertion order, or all of
\* them, in its block.
RoundMinesTheOldest ==
    last'.op = "mine_new_block"
        => \E block \in candidate' :
               tx_hashes_of(block.transactions) =
                   Take(mempool.order, MAX_TRANSACTIONS_PER_BLOCK)

\* The round succeeds; it takes the transactions of its block, which are
\* still at the first positions, out of the mempool and moves every other
\* transaction up by their number.
RoundTakesTheOldest ==
    last'.op = "process_mined_block"
        => /\ last'.res = "Ok"
           /\ \E block \in candidate :
                  \A p \in DOMAIN mempool.order :
                      IF p <= Len(block.transactions)
                      THEN /\ mempool.order[p] = tx_calculate_hash(block.transactions[p])
                           /\ mempool.order[p] \in Leaving
                      ELSE mempool'.order[p - Len(block.transactions)] = mempool.order[p]

\* C39: when the mining round keeps being executed, every transaction in the
\* mempool (none is evicted: the mempool of the model stays below its maximum
\* size) eventually leaves it, and it leaves it only into a block that is
\* stored; each round takes the first MAX_TRANSACTIONS_PER_BLOCK positions, or
\* all, and moves the rest up by as many, so that the transaction at position
\* p (from 0) when a round starts is included after at most
\* ceil((p + 1) / MAX_TRANSACTIONS_PER_BLOCK) rounds, all of which succeed.
C39_PendingTransactionsAreIncluded ==
    /\ \A tx \in NodeTxs : Pending(tx) ~> ~Pending(tx)
    /\ [][LeavesIntoABlock]_vars
    /\ [][RoundMinesTheOldest]_vars
    /\ [][RoundTakesTheOldest]_vars

\* Two rounds emptied a mempool of more than MAX_TRANSACTIONS_PER_BLOCK
\* transactions: the first block is full and the second holds the rest.
C39_Witness ==
    /\ last.op = "process_mined_block"
    /\ last.res = "Ok"
    /\ current_height = Some(2)
    /\ Len(StoredBlock(1).transactions) = MAX_TRANSACTIONS_PER_BLOCK
    /\ StoredBlock(2).transactions # <<>>
    /\ mempool.order = <<>>

(* ------------------------------- mine ---------------------------------- *)

\* Nonces left before u64::MAX when mine is entered near the end of the range.
NonceRoom == 9

\* Headers handed to mine and the difficulties asked for (the digest of the
\* model meets targets of up to 8 bits).
MineNonces == (0 .. 2) \cup ((U64_MAX - NonceRoom) .. U64_MAX)
MineDifficulties == 0 .. 8
MineHeaders ==
    [previous_hash : {ZeroHash, ForeignHash},
     merkle_root : {ZeroHash, Sha256(<<1>>)},
     timestamp : {0, 1234567890},
     nonce : MineNonces,
     difficulty : {0, 8},
     height : {1}]

MineCallOf(header, difficulty, r) ==
    [op |-> "mine", res |-> IF is_some(r.hash) THEN "Ok" ELSE "panic",
     detail |-> "", out |-> r.hash, difficulty |-> difficulty, after |-> r.header]

\* The caller's header, before any call.
InitMine ==
    /\ db = EmptyDb
    /\ up = TRUE
    /\ mempool = Mempool_new(MEMPOOL_MAX_SIZE)
    /\ current_tip_hash = None
    /\ current_height = None
    /\ candidate \in MineHeaders
    /\ last = Call("new", "Ok", "", None)

\* mine(&mut header, difficulty) on the caller's header.
Mine ==
    /\ last.op = "new"
    /\ \E difficulty \in MineDifficulties :
        last' = MineCallOf(candidate, difficulty, mine_call(candidate, difficulty))
    /\ UNCHANGED <<db, up, mempool, current_tip_hash, current_height, candidate>>

NextMine == Mine

SpecMine == InitMine /\ [][NextMine]_vars

\* The header with the difficulty and the nonce.
Trying(header, difficulty, nonce) ==
    [header EXCEPT !.difficulty = difficulty, !.nonce = nonce]

\* The nonce gives the header a hash that meets the target.
Meets(header, difficulty, nonce) ==
    verify_pow(header_calculate_hash(Trying(header, difficulty, nonce)), difficulty)

\* The nonces from the one given up to u64::MAX that the model can reach.
NoncesFrom(nonce) ==
    {n \in (0 .. (2 + 8)) \cup ((U64_MAX - NonceRoom) .. U64_MAX) : u64_le(nonce, n)}

\* C34: mine(header, d) leaves the header with difficulty d and the smallest
\* nonce, not below the one on entry, whose hash meets the target d, returns
\* that hash, which is the header's calculate_hash(), and leaves the other
\* four fields as they were; when no nonce up to u64::MAX meets the target it
\* panics and does not go on from nonce 0.
C34_MineFindsTheSmallestNonce ==
    last.op = "mine"
        => IF \E n \in NoncesFrom(candidate.nonce) : Meets(candidate, last.difficulty, n)
           THEN /\ last.res = "Ok"
                /\ last.after.nonce \in NoncesFrom(candidate.nonce)
                /\ Meets(candidate, last.difficulty, last.after.nonce)
                /\ \A n \in NoncesFrom(candidate.nonce) :
                       Meets(candidate, last.difficulty, n) => u64_le(last.after.nonce, n)
                /\ last.after = Trying(candidate, last.difficulty, last.after.nonce)
                /\ last.out = Some(header_calculate_hash(last.after))
                /\ verify_pow(unwrap(last.out), last.difficulty)
           ELSE last.res = "panic"

\* mine panicked at u64::MAX although nonce 0 would have met the target.
C34_Witness ==
    /\ last.op = "mine"
    /\ last.res = "panic"
    /\ last.after.nonce = U64_MAX
    /\ candidate.nonce # U64_MAX
    /\ Meets(candidate, last.difficulty, 0)

(* ------------------------------ JSON-RPC ------------------------------- *)

\* The RPC adapter in front of the engine and the object store.  In this
\* specification `candidate` is the directory of the object store (file name
\* to content) and `last` the last request with its response, what became of
\* its payload, and the storage transactions send_transaction has admitted
\* so far, each with the payload it was sent with.

\* base64 (STANDARD): symbols are written as their values 0 .. 63, '=' as 64.
PadChar == 64

RECURSIVE base64_encode(_)
base64_encode(bytes) ==
    IF bytes = <<>> THEN <<>>
    ELSE IF Len(bytes) = 1
    THEN <<bytes[1] \div 4, (bytes[1] % 4) * 16, PadChar, PadChar>>
    ELSE IF Len(bytes) = 2
    THEN <<bytes[1] \div 4, (bytes[1] % 4) * 16 + bytes[2] \div 16,
           (bytes[2] % 16) * 4, PadChar>>
    ELSE <<bytes[1] \div 4, (bytes[1] % 4) * 16 + bytes[2] \div 16,
           (bytes[2] % 16) * 4 + bytes[3] \div 64, bytes[3] % 64>>
             \o base64_encode(Drop(bytes, 3))

\* The bytes of one group of four symbols; padding and trailing bits must be
\* canonical.
decode_group(q) ==
    IF q[1] = PadChar \/ q[2] = PadChar THEN Err("Base64")
    ELSE IF q[3] = PadChar
    THEN IF q[4] = PadChar /\ q[2] % 16 = 0
         THEN Ok(<<q[1] * 4 + q[2] \div 16>>) ELSE Err("Base64")
    ELSE IF q[4] = PadChar
    THEN IF q[3] % 4 = 0
         THEN Ok(<<q[1] * 4 + q[2] \div 16, (q[2] % 16) * 16 + q[3] \div 4>>)
         ELSE Err("Base64")
    ELSE Ok(<<q[1] * 4 + q[2] \div 16, (q[2] % 16) * 16 + q[3] \div 4,
              (q[3] % 4) * 64 + q[4]>>)

RECURSIVE base64_decode(_)
decoded_after(group, rest) ==
    IF ~group.ok THEN group
    ELSE IF ~rest.ok THEN rest
    ELSE Ok(group.val \o rest.val)
base64_decode(chars) ==
    IF chars = <<>> THEN Ok(<<>>)
    ELSE IF Len(chars) < 4 THEN Err("Base64")
    ELSE IF Len(chars) > 4 /\ chars[4] = PadChar THEN Err("Base64")
    ELSE decoded_after(decode_group(Take(chars, 4)), base64_decode(Drop(chars, 4)))

\* hex::decode: two digits to a byte; a digit above 15 is no hex digit.
hex_decode(digits) ==
    IF Len(digits) % 2 = 1 \/ \E i \in DOMAIN digits : digits[i] > 15 THEN Err("Hex")
    ELSE Ok([i \in 1 .. (Len(digits) \div 2) |-> digits[2 * i - 1] * 16 + digits[2 * i]])

\* store_payload(payload) as one call on the directory: [dir, res].  io tells
\* how the file system answers: "ok", File::create fails ("create"), or
\* write_all fails after n bytes ("write").
store_payload(dir, payload, io, n) ==
    IF file_path(Sha256(payload)) \in DOMAIN dir
    THEN [dir |-> dir, res |-> Ok(Sha256(payload))]
    ELSE IF io = "create" THEN [dir |-> dir, res |-> Err("Io")]
    ELSE IF io = "write"
    THEN [dir |-> Put(dir, file_path(Sha256(payload)),
                      written_at(<<>>, 0, SubSeq(payload, 1, n))),
          res |-> Err("Io")]
    ELSE [dir |-> Put(dir, file_path(Sha256(payload)), written_at(<<>>, 0, payload)),
          res |-> Ok(Sha256(payload))]

\* Transaction::new_store_data(sender, payload_hash, data_size): the
\* StoragePointer transaction.
new_store_data(sender, payload_hash, data_size, now) ==
    new_storage(sender, payload_hash, data_size, now)

\* Transaction::new_transfer_native(sender, recipient, amount)
new_transfer_native(sender, recipient, amount, now) ==
    new_transfer(sender, recipient, amount, now)

JsonRpcResponse(id, result, error) ==
    [jsonrpc |-> "2.0", result |-> result, error |-> error, id |-> id]
create_success_response(id, result) == JsonRpcResponse(id, Some(result), None)
create_error_response(id, code) == JsonRpcResponse(id, None, Some(code))

\* let request_id = None; in every handler ("ID is handled by the main
\* handler").
handler_request_id(request_id) == None

\* What a handler returns to rpc_handler, with the mempool and the directory
\* as it leaves them.
Handled(response, mp, dir, payload, admitted) ==
    [response |-> response, mp |-> mp, dir |-> dir, payload |-> payload,
     admitted |-> admitted]

\* The transaction of send_transaction's parameters: [tx, dir, payload], tx
\* being Ok(tx) or Err; payload tells what became of the payload.
storage_tx(sender, decoded, stored, now) ==
    IF ~decoded.ok THEN [tx |-> decoded, dir |-> stored.dir, payload |-> "undecoded"]
    ELSE IF ~stored.res.ok THEN [tx |-> stored.res, dir |-> stored.dir, payload |-> "unstored"]
    ELSE [tx |-> Ok(new_store_data(sender, stored.res.val, Len(decoded.val), now)),
          dir |-> stored.dir, payload |-> "stored"]

tx_of_params(params, dir, io, n, now) ==
    IF is_some(params.payload_base64)
    THEN storage_tx(unwrap(params.sender), base64_decode(unwrap(params.payload_base64)),
                    IF base64_decode(unwrap(params.payload_base64)).ok
                    THEN store_payload(dir,
                             base64_decode(unwrap(params.payload_base64)).val, io, n)
                    ELSE [dir |-> dir, res |-> Err("Base64")],
                    now)
    ELSE IF is_some(params.recipient) /\ is_some(params.amount)
    THEN [tx |-> Ok(new_transfer_native(unwrap(params.sender), unwrap(params.recipient),
                                        unwrap(params.amount), now)),
          dir |-> dir, payload |-> "none"]
    ELSE [tx |-> Err("InvalidParams"), dir |-> dir, payload |-> "none"]

\* The response once the transaction is built or refused.
tx_submitted(request_id, built, mp, pending) ==
    IF ~built.tx.ok
    THEN Handled(create_error_response(request_id, -32602), mp, built.dir, built.payload, {})
    ELSE IF ~pending.res.ok
    THEN Handled(create_error_response(request_id, -32000), mp, built.dir, built.payload, {})
    ELSE Handled(create_success_response(request_id,
                                         hex_encode(tx_calculate_hash(built.tx.val))),
                 pending.mp, built.dir, built.payload,
                 IF built.payload = "stored" THEN {built.tx.val} ELSE {})

tx_added(request_id, built, mp) ==
    tx_submitted(request_id, built, mp,
                 IF built.tx.ok THEN add_transaction(mp, built.tx.val)
                 ELSE [res |-> Err("none"), mp |-> mp])

handle_send_transaction(request_id, params, mp, dir, io, n, now) ==
    IF is_none(params.sender)
    THEN Handled(create_error_response(handler_request_id(request_id), -32602),
                 mp, dir, "none", {})
    ELSE tx_added(handler_request_id(request_id), tx_of_params(params, dir, io, n, now), mp)

handle_get_chain_height(request_id, height) ==
    create_success_response(handler_request_id(request_id), height)

handle_get_block_by_height(request_id, params, store) ==
    IF is_none(params.height)
    THEN create_error_response(handler_request_id(request_id), -32602)
    ELSE create_success_response(handler_request_id(request_id),
                                 get_block_by_height(store, unwrap(params.height)))

block_of_hash(request_id, hash_bytes, store) ==
    IF ~hash_bytes.ok THEN create_error_response(request_id, -32602)
    ELSE IF ~IsHashLen(hash_bytes.val) THEN create_error_response(request_id, -32602)
    ELSE create_success_response(request_id, get_block_by_hash(store, hash_bytes.val))

handle_get_block_by_hash(request_id, params, store) ==
    IF is_none(params.hash)
    THEN create_error_response(handler_request_id(request_id), -32602)
    ELSE block_of_hash(handler_request_id(request_id), hex_decode(unwrap(params.hash)), store)

\* Blocks mined behind the adapter, the payloads clients send and the ids of
\* their requests.
RpcRounds == 1
RpcPayloads == {<<1, 2>>}
RpcIds == {None, Some(1)}
RpcIo == {"ok", "create", "write"}

\* payload_base64 of a request: a payload encoded, one symbol, a group with
\* padding inside.
RpcStrings == {base64_encode(p) : p \in RpcPayloads} \cup {<<0>>, <<0, 16, PadChar, 0>>}

\* params of send_transaction as SendTransactionParams reads them.
SendTransactionParams(sender, recipient, amount, payload_base64) ==
    [sender |-> sender, recipient |-> recipient, amount |-> amount,
     payload_base64 |-> payload_base64]
RpcSendParams ==
    {SendTransactionParams(Some(<<1>>), None, None, Some(s)) : s \in RpcStrings}
        \cup {SendTransactionParams(Some(<<1>>), Some(<<2>>), Some(100), None),
              SendTransactionParams(Some(<<1>>), None, None, None),
              SendTransactionParams(None, Some(<<2>>), Some(100), None)}

RpcHeightParams == {[height |-> h] : h \in {None, Some(0), Some(1)}}

\* Hex strings of a request: the hash of a stored block, of none, a string of
\* odd length, one with a digit that is none, one too short for a hash.
RpcHashParams ==
    {[hash |-> None], [hash |-> Some(hex_encode(ZeroHash))],
     [hash |-> Some(hex_encode(block_hash(GenesisBlock(0))))],
     [hash |-> Some(<<1>>)], [hash |-> Some(<<16, 0>>)], [hash |-> Some(<<0, 1>>)]}

JsonRpcRequest(method, params, id) ==
    [jsonrpc |-> "2.0", method |-> method, params |-> params, id |-> id]

\* The last request and its response; payload tells what became of the
\* payload of a send_transaction, admitted holds the storage transactions
\* admitted so far with the payloads they were sent with.
RpcCall(request, response, payload, admitted) ==
    [request |-> request, response |-> response, payload |-> payload,
     admitted |-> admitted]

\* The node after genesis with an empty object store; no request yet.
InitRpc ==
    /\ db = save_block(EmptyDb, GenesisBlock(0), TRUE).db
    /\ up = TRUE
    /\ mempool = Mempool_new(MEMPOOL_MAX_SIZE)
    /\ current_tip_hash = Some(block_hash(GenesisBlock(0)))
    /\ current_height = Some(0)
    /\ candidate = <<>>
    /\ last = RpcCall(None, None, "none", {})

OnlyResponse == UNCHANGED <<db, up, mempool, current_tip_hash, current_height, candidate>>

\* rpc_handler: the arm of send_transaction.
SendReturns(request, h) ==
    /\ mempool' = h.mp
    /\ candidate' = h.dir
    /\ last' = RpcCall(Some(request), Some(h.response), h.payload,
                       last.admitted \cup
                           {[tx |-> tx,
                             payload |-> base64_decode(unwrap(request.params.payload_base64)).val]
                                : tx \in h.admitted})
    /\ UNCHANGED <<db, up, current_tip_hash, current_height>>

RpcSendTransaction ==
    \E id \in RpcIds, params \in RpcSendParams, io \in RpcIo, n \in 0 .. 1 :
        /\ io = "write" \/ n = 0
        /\ SendReturns(JsonRpcRequest("send_transaction", params, id),
                       handle_send_transaction(id, params, mempool, candidate, io, n, 1))

RpcGetChainHeight ==
    /\ \E id \in RpcIds :
        last' = RpcCall(Some(JsonRpcRequest("get_chain_height", None, id)),
                        Some(handle_get_chain_height(id, current_height)),
                        "none", last.admitted)
    /\ OnlyResponse

RpcGetBlockByHeight ==
    /\ \E id \in RpcIds, params \in RpcHeightParams :
        last' = RpcCall(Some(JsonRpcRequest("get_block_by_height", params, id)),
                        Some(handle_get_block_by_height(id, params, db)),
                        "none", last.admitted)
    /\ OnlyResponse

RpcGetBlockByHash ==
    /\ \E id \in RpcIds, params \in RpcHashParams :
        last' = RpcCall(Some(JsonRpcRequest("get_block_by_hash", params, id)),
                        Some(handle_get_block_by_hash(id, params, db)),
                        "none", last.admitted)
    /\ OnlyResponse

\* rpc_handler: the arm of every other method name.
RpcMethodNotFound ==
    /\ \E id \in RpcIds :
        last' = RpcCall(Some(JsonRpcRequest("invalid_method", None, id)),
                        Some(create_error_response(id, -32601)),
                        "none", last.admitted)
    /\ OnlyResponse

\* The miner behind the adapter: mine_new_block and process_mined_block under
\* one lock of the blockchain.
MinedBehind(r) ==
    /\ db' = r.eng.db
    /\ current_tip_hash' = r.eng.tip
    /\ current_height' = r.eng.height
    /\ mempool' = r.mp
    /\ UNCHANGED <<up, candidate, last>>

RpcMineRound ==
    /\ unwrap(current_height) < RpcRounds
    /\ \E now \in MineTimes :
        MinedBehind(process_mined_block(TheEngine, mempool,
                        mine_new_block(TheEngine, mempool, now, TRUE).val, TRUE, TRUE))

NextRpc ==
    \/ RpcSendTransaction
    \/ RpcGetChainHeight
    \/ RpcGetBlockByHeight
    \/ RpcGetBlockByHash
    \/ RpcMethodNotFound
    \/ RpcMineRound

SpecRpc == InitRpc /\ [][NextRpc]_vars

Answered == is_some(last.response)
TheRequest == unwrap(last.request)
TheResponse == unwrap(last.response)

\* C32: every response carries the id of the request it answers, for the
\* results of get_chain_height, send_transaction, get_block_by_height and
\* get_block_by_hash as well as for error responses.
C32_ResponseCarriesTheRequestId ==
    Answered => TheResponse.id = TheRequest.id

\* The object under the payload hash of an admitted storage transaction is
\* the payload it was sent with, and payload_size is its length.
PayloadKept(a) ==
    /\ a.tx.data_hash = Some(Sha256(a.payload))
    /\ a.tx.data_size = Some(Len(a.payload))
    /\ file_path(Sha256(a.payload)) \in DOMAIN candidate
    /\ candidate[file_path(Sha256(a.payload))] = a.payload

\* A send_transaction whose payload was not decoded or not stored adds
\* nothing to the mempool (the steps that leave the height alone are the
\* requests).
FailedPayloadAddsNothing ==
    current_height' = current_height /\ last'.payload \in {"undecoded", "unstored"}
        => mempool' = mempool

\* C31: every storage transaction send_transaction admitted has its payload
\* in the object store under its payload hash, with payload_size the length
\* of the payload, from then on (also once it is in a block); when decoding
\* or storing the payload fails no transaction is added to the mempool.
C31_AdmittedPayloadsAreStored ==
    /\ [](\A a \in last.admitted : PayloadKept(a))
    /\ [][FailedPayloadAddsNothing]_vars

====
